---- MODULE Spec2Model ----
(***************************************************************************)
(* Model of the request pipeline of medbai2/common-go: the RBAC header     *)
(* middleware (middleware/rbac.go), the bearer-token middleware            *)
(* (middleware/auth0.go) and the response envelope they write              *)
(* (response/response.go), run by gin's handler chain.                     *)
(*                                                                         *)
(* A Go string is a sequence of one-character strings, so that trimming,   *)
(* splitting and the permission regular expression are computed character  *)
(* by character as the code computes them.                                 *)
(***************************************************************************)
EXTENDS Integers, Sequences, FiniteSets, TLC

\* ------------------------------------------------------------------ bounds
\* Longest list of required roles / permissions a middleware is built with.
MaxRequired == 2

\* the number of requests that verify tokens concurrently
MaxProcs == 2

\* the width of the model's int in bits: Go's int is a two's complement
\* integer of 64 bits; the model keeps the wrap-around at a width TLC can count in
IntBits == 8

\* ----------------------------------------------------------------- strings
Lower == {"a","b","c","d","e","f","g","h","i","j","k","l","m",
          "n","o","p","q","r","s","t","u","v","w","x","y","z"}

Digit == {"0","1","2","3","4","5","6","7","8","9"}

\* unicode.IsSpace restricted to the ASCII white space a header can carry
IsSpace(ch) == ch \in {" ", "\t", "\n", "\r", "\f"}

\* strings.TrimSpace
RECURSIVE TrimSpace(_)
TrimSpace(s) ==
    IF s = <<>> THEN s
    ELSE IF IsSpace(Head(s)) THEN TrimSpace(Tail(s))
    ELSE IF IsSpace(s[Len(s)]) THEN TrimSpace(SubSeq(s, 1, Len(s) - 1))
    ELSE s

\* strings.Split(s, sep) for a one-character separator: always at least one part
RECURSIVE Split(_, _)
Split(s, sep) ==
    IF \E i \in 1..Len(s) : s[i] = sep
    THEN LET i == CHOOSE k \in 1..Len(s) :
                      s[k] = sep /\ \A j \in 1..(k - 1) : s[j] # sep
         IN  <<SubSeq(s, 1, i - 1)>> \o Split(SubSeq(s, i + 1, Len(s)), sep)
    ELSE <<s>>

\* a parseCommaSeparated that forgets to trim the parts
parseCommaSeparatedNoTrim(s) ==
    IF s = <<>> THEN <<>>
    ELSE SelectSeq(Split(s, ","), LAMBDA p : p # <<>>)

\* rbac.go parseCommaSeparated: split on commas, trim each part, drop empty parts
parseCommaSeparated(s) ==
    IF s = <<>> THEN <<>>
    ELSE LET parts   == Split(s, ",")
             trimmed == [i \in 1..Len(parts) |-> TrimSpace(parts[i])]
         IN  SelectSeq(trimmed, LAMBDA p : p # <<>>)

\* a format check that lets upper-case letters through
permissionFormatRegexAnyCase(s) ==
    /\ Len(s) >= 1
    /\ \A i \in 1..Len(s) :
          s[i] \in (Lower \cup Digit \cup {"_", ":"} \cup {"A","C","D","E","I","L","M","N","O","P","R","S","T","V"})

\* permissionFormatRegex.MatchString for ^[a-z0-9_:]+$
permissionFormatRegex(s) ==
    /\ Len(s) >= 1
    /\ \A i \in 1..Len(s) : s[i] \in (Lower \cup Digit \cup {"_", ":"})

\* the elements of a slice kept by the format filter, in order
FilterValid(perms) == SelectSeq(perms, permissionFormatRegex)

\* ------------------------------------------------------- request headers
\* A header is absent, or present with a value.  c.GetHeader cannot tell an
\* absent header from an empty one.
Absent == [present |-> FALSE, value |-> <<>>]

Hdr(v) == [present |-> TRUE, value |-> v]

HeaderNames == {"X-User-ID", "X-User-Roles", "X-User-Permissions", "Authorization"}

\* gin's c.GetHeader(name)
GetHeader(r, name) == IF r.hdr[name].present THEN r.hdr[name].value ELSE <<>>

\* ---------------------------------------------------------- input pools
uid1 == <<"u","1">>

UserIDPool ==
    { Absent, Hdr(<<>>), Hdr(<<" ">>), Hdr(<<"\t"," ">>), Hdr(uid1),
      Hdr(<<" ">> \o uid1 \o <<" ">>) }

rUser    == <<"u","s","e","r">>
rAdmin   == <<"a","d","m","i","n">>
rUserCap == <<"U","s","e","r">>
rPadded  == <<" ">> \o rAdmin

ReqRolePool == {rUser, rAdmin, rUserCap, rPadded}

RolesHeaderPool ==
    { Absent, Hdr(<<>>), Hdr(rUser), Hdr(rAdmin), Hdr(rUserCap),
      Hdr(rUser \o <<",">> \o rAdmin),
      Hdr(rUser \o <<","," ">> \o rAdmin),
      Hdr(<<" ">> \o rAdmin \o <<" ",",">> \o rUser),
      Hdr(<<",",","," ">>),
      Hdr(rUser \o rAdmin) }

wHello    == <<"h","e","l","l","o">>
wGreeting == <<"g","r","e","e","t","i","n","g">>
wCreate   == <<"c","r","e","a","t","e">>
wDelete   == <<"d","e","l","e","t","e">>

pCreate  == wHello \o <<":">> \o wGreeting \o <<":">> \o wCreate
pDelete  == wHello \o <<":">> \o wGreeting \o <<":">> \o wDelete
pInvalid == <<"I","N","V","A","L","I","D","_","P","E","R","M","I","S","S","I","O","N">>
pNoColon == wHello \o wGreeting \o wCreate

ReqPermPool == {pCreate, pDelete, pInvalid, pNoColon}

PermsHeaderPool ==
    { Absent, Hdr(<<>>), Hdr(pCreate), Hdr(pDelete), Hdr(pInvalid), Hdr(pNoColon),
      Hdr(pCreate \o <<",">> \o pDelete),
      Hdr(pCreate \o <<","," ">> \o pDelete),
      Hdr(pCreate \o <<",">> \o pInvalid \o <<",">> \o pDelete),
      Hdr(pInvalid \o <<",">> \o pCreate),
      Hdr(pCreate \o <<" ">> \o wDelete) }

\* every list of at most MaxRequired entries of a pool
Lists(pool) == UNION { [1..n -> pool] : n \in 0..MaxRequired }

\* --------------------------------------------------- response envelopes
StatusOK == 200

StatusUnauthorized == 401

StatusForbidden == 403

MsgUnauthorized == "unauthorized access"

MsgForbidden == "access forbidden"

\* a Forbidden that answers 401
ForbiddenAs401(message) ==
    [ status |-> StatusUnauthorized, success |-> FALSE, hasData |-> FALSE,
      code |-> "FORBIDDEN",
      message |-> IF message = "" THEN MsgForbidden ELSE message,
      by |-> "middleware" ]

\* response.Forbidden(c, message): the envelope handed to c.JSON
Forbidden(message) ==
    [ status |-> StatusForbidden, success |-> FALSE, hasData |-> FALSE,
      code |-> "FORBIDDEN",
      message |-> IF message = "" THEN MsgForbidden ELSE message,
      by |-> "middleware" ]

\* response.Unauthorized(c, message): the envelope handed to c.JSON
Unauthorized(message) ==
    [ status |-> StatusUnauthorized, success |-> FALSE, hasData |-> FALSE,
      code |-> "UNAUTHORIZED",
      message |-> IF message = "" THEN MsgUnauthorized ELSE message,
      by |-> "middleware" ]

\* the route handler of the tests: c.JSON(http.StatusOK, gin.H{"message": "success"})
HandlerReply ==
    [ status |-> StatusOK, success |-> TRUE, hasData |-> TRUE,
      code |-> "", message |-> "success", by |-> "handler" ]

\* ------------------------------------------------------------- the state
VARIABLES
    pc,          \* "idle", "running", "done", "panicked": the request's progress
    installed,   \* the middleware constructor the router was set up with, and its arguments
    handler,     \* the gin.HandlerFunc that constructor returned
    req,         \* the request: its headers and the JWT its bearer token decodes to
    index,       \* gin's c.index, 1-based: the handler of the chain that runs next
    written,     \* the responses written with c.JSON, in order
    keys,        \* gin's c.Keys: the identity stored under "auth0_user", if any
    handlerRuns, \* how often the route handler ran for this request
    log,         \* the records logged for this request
    trace,       \* what token verification did for this request
    jwksRegistered, \* process-wide: the key-set URL is registered in jwksCache
    verifying,   \* concurrent verifications: each one's place in the key function and its locals
    call,        \* the last call into the errors or the response package: its input and its result
    chain        \* a request on its way through the chain Logger, CORS, authentication, handler

vars == <<pc, installed, handler, req, index, written, keys, handlerRuns, log, trace,
          jwksRegistered, verifying, call, chain>>

\* gin's abortIndex (math.MaxInt8 >> 1), the value c.Abort() gives c.index
abortIndex == 63

\* the chain is <<middleware, route handler>>
HandlerPos == 2

NoCfg == [Domain |-> <<>>, Audience |-> <<>>, Enabled |-> FALSE]

NoUser == [present |-> FALSE, Sub |-> <<>>, Email |-> <<>>, Name |-> <<>>]

\* no answer of the userinfo endpoint
NoInfo == [ok |-> FALSE, Sub |-> <<>>, Email |-> <<>>, Name |-> <<>>]

NoTrace == [parseCalls |-> 0, jwksCalls |-> 0, userinfoCalls |-> 0,
            result |-> "none", keysFrom |-> "none", userinfo |-> "none",
            tokenUser |-> NoUser, userinfoAuth |-> <<>>, userinfoAnswer |-> NoInfo]

\* the requests that verify tokens at the same time
Procs == 1..MaxProcs

\* a request that is not inside the key function
NoVerification == [at |-> "idle", kid |-> <<>>, keySet |-> "none", warns |-> {}, err |-> ""]

\* no call into the errors or the response package was made yet
NoCall == [fn |-> "none"]

\* the header CORS answers the origin with
AllowOrigin == "Access-Control-Allow-Origin"

\* the response headers the chain sets
CORSHeaders == {AllowOrigin, "Access-Control-Allow-Methods", "Access-Control-Allow-Headers",
                "Access-Control-Max-Age"}

\* no request is in the chain Logger, CORS, authentication, handler
NoChain ==
    [ pc |-> "idle", method |-> "", origin |-> "", corsMaxAge |-> 0, authorized |-> FALSE,
      index |-> 0, status |-> 0, headers |-> [h \in CORSHeaders |-> ""], ran |-> <<>>,
      logged |-> 0 ]

LogEntry(level, msg, reason) == [level |-> level, msg |-> msg, reason |-> reason]

\* ------------------------------------------------ rbac.go: constructors
\* RequireAuth(appLogger): the closure of rbac.go lines 21-37
RequireAuth == [fn |-> "RequireAuth", required |-> <<>>, cfg |-> NoCfg]

\* a RequireAnyRole without the empty-list shortcut
RequireAnyRoleNoShortcut(roles) == [fn |-> "AnyRole", required |-> roles, cfg |-> NoCfg]

\* RequireAnyRole(appLogger, roles...)
RequireAnyRole(roles) ==
    IF Len(roles) = 0 THEN RequireAuth
    ELSE [fn |-> "AnyRole", required |-> roles, cfg |-> NoCfg]

\* RequireAnyPermission(appLogger, permissions...)
RequireAnyPermission(permissions) ==
    IF Len(permissions) = 0 THEN RequireAuth
    ELSE [fn |-> "AnyPermission", required |-> permissions, cfg |-> NoCfg]

\* RequireAllPermissions(appLogger, permissions...)
RequireAllPermissions(permissions) ==
    IF Len(permissions) = 0 THEN RequireAuth
    ELSE [fn |-> "AllPermissions", required |-> permissions, cfg |-> NoCfg]

\* ----------------------------------------- rbac.go: the decisions taken
\* a check of the identity header that forgets to trim it
userIDMissingNoTrim(r) == GetHeader(r, "X-User-ID") = <<>>

\* userID == "" after strings.TrimSpace(c.GetHeader("X-User-ID"))
userIDMissing(r) == TrimSpace(GetHeader(r, "X-User-ID")) = <<>>

\* a role comparison that ignores the case of the first letter
hasRoleIgnoreCase(roles, r) ==
    LET userRoles == parseCommaSeparated(TrimSpace(GetHeader(r, "X-User-Roles")))
        low(x)    == IF x # <<>> /\ x[1] = "U" THEN <<"u">> \o Tail(x) ELSE x
    IN  \E i \in 1..Len(roles) : \E j \in 1..Len(userRoles) :
            low(userRoles[j]) = low(roles[i])

\* hasRole of RequireAnyRole: some required role equals some user role
hasRole(roles, r) ==
    LET userRoles == parseCommaSeparated(TrimSpace(GetHeader(r, "X-User-Roles")))
    IN  \E i \in 1..Len(roles) : \E j \in 1..Len(userRoles) :
            userRoles[j] = roles[i]

\* validUserPermissions: the user's permissions that pass the format check
validUserPermissions(r) ==
    FilterValid(parseCommaSeparated(TrimSpace(GetHeader(r, "X-User-Permissions"))))

\* a required-permission filter that keeps everything
validRequiredPermissionsUnfiltered(permissions) == permissions

\* validRequiredPermissions: the required permissions that pass the format check
validRequiredPermissions(permissions) == FilterValid(permissions)

\* an any-of check that demands every required permission
hasPermissionAll(permissions, r) ==
    LET vu == validUserPermissions(r)
        vr == validRequiredPermissions(permissions)
    IN  \A i \in 1..Len(vr) : \E j \in 1..Len(vu) : vu[j] = vr[i]

\* hasPermission of RequireAnyPermission
hasPermission(permissions, r) ==
    LET vu == validUserPermissions(r)
        vr == validRequiredPermissions(permissions)
    IN  \E i \in 1..Len(vr) : \E j \in 1..Len(vu) : vu[j] = vr[i]

\* missingPermissions of RequireAllPermissions
missingPermissions(permissions, r) ==
    LET vu == validUserPermissions(r)
    IN  SelectSeq(validRequiredPermissions(permissions),
                  LAMBDA p : ~ \E j \in 1..Len(vu) : vu[j] = p)

\* ------------------------------------------------- gin: abort and next
\* the middleware answers with envelope env, logs entries and calls c.Abort()
Reject(env, entries) ==
    /\ written' = Append(written, env)
    /\ index' = abortIndex
    /\ log' = log \o entries

\* the middleware writes nothing and calls c.Next()
PassOn(entries) ==
    /\ written' = written
    /\ index' = index + 1
    /\ log' = log \o entries

MissingIDEntry ==
    LogEntry("warn", "Authentication required but X-User-ID header missing", "")

\* ------------------------------------------------ auth0.go: the tokens
\* A claim (or header field) of a JWT is absent, a JSON string, a JSON array
\* or another JSON value.
NoClaim == [t |-> "absent", v |-> <<>>, arr |-> <<>>]

Str(v) == [t |-> "string", v |-> v, arr |-> <<>>]

NonStr == [t |-> "other", v |-> <<>>, arr |-> <<>>]

Arr(a) == [t |-> "array", v |-> <<>>, arr |-> a]

cfgDomain   == <<"t",".","c","o">>
cfgAudience == <<"a","p","i">>
otherAud    == <<"w","e","b">>
longerAud   == cfgAudience \o <<"s">>

Auth0Cfgs == { [Domain |-> cfgDomain, Audience |-> cfgAudience, Enabled |-> e] : e \in BOOLEAN }

https == <<"h","t","t","p","s",":","/","/">>

\* the key identifiers of the tenant's key set
kidKnown   == <<"k","1">>
kidUnknown == <<"k","9">>
KeySetKids == {kidKnown}

subject == <<"s","u","b","1">>
email1  == <<"e","@","x">>
nName   == <<"N">>
nGiven  == <<"G">>
nFamily == <<"F">>
nNick   == <<"K">>

AudPool ==
    { NoClaim, NonStr, Str(cfgAudience), Str(otherAud), Str(longerAud), Str(<<>>), Arr(<<>>),
      Arr(<<Str(cfgAudience)>>), Arr(<<Str(cfgAudience), Str(otherAud)>>),
      Arr(<<Str(otherAud), Str(cfgAudience)>>), Arr(<<NonStr, Str(cfgAudience)>>) }

IssPool ==
    { NoClaim, NonStr,
      Str(https \o cfgDomain \o <<"/">>), Str(https \o cfgDomain),
      Str(https \o cfgDomain \o <<"/","/">>), Str(cfgDomain),
      Str(<<"h","t","t","p",":","/","/">> \o cfgDomain \o <<"/">>),
      Str(https \o <<"e","v","i","l">> \o <<"/">>) }

\* a token that passes every check, with no profile claims
GoodToken ==
    [ form |-> "ok", alg |-> "RS256", kid |-> Str(kidKnown), sig |-> TRUE, fresh |-> TRUE,
      aud |-> Str(cfgAudience), iss |-> Str(https \o cfgDomain \o <<"/">>),
      sub |-> Str(subject), email |-> NoClaim, name |-> NoClaim,
      given_name |-> NoClaim, family_name |-> NoClaim, nickname |-> NoClaim ]

\* what jwt.Parse makes of a string that is no JWT
MalformedToken == [GoodToken EXCEPT !.form = "malformed"]

\* tokens that fail while jwt.Parse runs
ParseFailTokens ==
    { MalformedToken,
      [GoodToken EXCEPT !.alg = "HS256"],
      [GoodToken EXCEPT !.kid = NoClaim],
      [GoodToken EXCEPT !.kid = NonStr],
      [GoodToken EXCEPT !.kid = Str(kidUnknown)],
      [GoodToken EXCEPT !.sig = FALSE],
      [GoodToken EXCEPT !.fresh = FALSE],
      [GoodToken EXCEPT !.sig = FALSE, !.aud = Str(otherAud)],
      [GoodToken EXCEPT !.sig = FALSE, !.aud = Arr(<<NonStr>>)] }

\* properly signed tokens with every audience, issuer and subject
ClaimTokens ==
    { [GoodToken EXCEPT !.aud = a, !.iss = i, !.sub = s] :
        a \in AudPool, i \in IssPool, s \in {NoClaim, NonStr, Str(subject)} }

\* valid tokens with every combination of profile claims
ProfileTokens ==
    { [GoodToken EXCEPT !.email = e, !.name = n, !.given_name = g,
                        !.family_name = f, !.nickname = k] :
        e \in {NoClaim, Str(email1)}, n \in {NoClaim, Str(<<>>), Str(nName)},
        g \in {NoClaim, Str(nGiven)}, f \in {NoClaim, Str(nFamily)},
        k \in {NoClaim, Str(nNick)} }

Tokens == ParseFailTokens \cup ClaimTokens \cup ProfileTokens

\* the Authorization header: "JWT" stands for the compact serialization of
\* req.jwt, a run of characters without a space
wBearer == <<"B","e","a","r","e","r">>
jwtText == <<"JWT">>

\* headers whose second part is the token
TokenHeaders ==
    { Hdr(wBearer \o <<" ">> \o jwtText) }

\* headers without a usable token
OtherAuthHeaders ==
    { Absent, Hdr(<<>>), Hdr(wBearer), Hdr(wBearer \o <<" ">>), Hdr(jwtText),
      Hdr(wBearer \o <<" "," ">> \o jwtText),
      Hdr(wBearer \o <<" ">> \o jwtText \o <<" ">>),
      Hdr(<<"b","e","a","r","e","r"," ">> \o jwtText),
      Hdr(<<"B","a","s","i","c"," ">> \o jwtText),
      Hdr(wBearer \o <<" ">> \o <<"x">>) }

\* the JWT a token string decodes to
DecodeToken(tokenString, r) ==
    IF tokenString = jwtText THEN r.jwt ELSE MalformedToken

\* what the network and the key-set cache do during one verification
Envs ==
    [ getOK : BOOLEAN, fetchOK : BOOLEAN, registerOK : BOOLEAN, refreshOK : BOOLEAN,
      rawOK : BOOLEAN ]

\* ------------------------------------------- auth0.go: token verification
\* claims[k].(string): the value and whether the assertion succeeded
AsString(c) == IF c.t = "string" THEN c.v ELSE <<>>

\* a name extraction that prefers the nickname to the given and family names
extractNameFromClaimsNicknameFirst(tok) ==
    LET name       == AsString(tok.name)
        givenName  == AsString(tok.given_name)
        familyName == AsString(tok.family_name)
        nickname   == AsString(tok.nickname)
    IN  IF name # <<>> THEN name
        ELSE IF nickname # <<>> THEN nickname
        ELSE IF givenName # <<>> /\ familyName # <<>>
             THEN givenName \o <<" ">> \o familyName
        ELSE givenName \o familyName

\* extractNameFromClaims: name > given_name + family_name > nickname
extractNameFromClaims(tok) ==
    LET name       == AsString(tok.name)
        givenName  == AsString(tok.given_name)
        familyName == AsString(tok.family_name)
        nickname   == AsString(tok.nickname)
    IN  IF name # <<>> THEN name
        ELSE IF givenName # <<>> \/ familyName # <<>>
             THEN IF givenName # <<>> /\ familyName # <<>>
                  THEN givenName \o <<" ">> \o familyName
                  ELSE IF givenName # <<>> THEN givenName ELSE familyName
        ELSE IF nickname # <<>> THEN nickname
        ELSE <<>>

\* a key function that gives up when the key-set URL cannot be registered
keyFuncRegisterFatal(tok, env, registered) ==
    IF tok.alg # "RS256"
    THEN [err |-> "unexpected signing method", keysFrom |-> "none",
          registered |-> registered, warns |-> <<>>, jwksCalls |-> 0]
    ELSE IF tok.kid.t # "string"
    THEN [err |-> "kid not found in token header", keysFrom |-> "none",
          registered |-> registered, warns |-> <<>>, jwksCalls |-> 0]
    ELSE IF registered /\ env.getOK
    THEN [err |-> IF tok.kid.v \notin KeySetKids THEN "key not found"
                  ELSE IF ~env.rawOK THEN "failed to get raw key" ELSE "",
          keysFrom |-> "cache", registered |-> registered, warns |-> <<>>,
          jwksCalls |-> 1]
    ELSE IF ~env.fetchOK
    THEN [err |-> "failed to fetch JWKS", keysFrom |-> "none",
          registered |-> registered, warns |-> <<>>, jwksCalls |-> 2]
    ELSE IF ~env.registerOK
    THEN [err |-> "failed to register JWKS", keysFrom |-> "fetched",
          registered |-> registered,
          warns |-> <<LogEntry("warn", "Failed to register JWKS URL in cache", "register")>>,
          jwksCalls |-> 2]
    ELSE [err |-> IF tok.kid.v \notin KeySetKids THEN "key not found"
                  ELSE IF ~env.rawOK THEN "failed to get raw key" ELSE "",
          keysFrom |-> "fetched", registered |-> TRUE,
          warns |-> IF env.refreshOK THEN <<>>
                    ELSE <<LogEntry("warn", "Failed to refresh JWKS cache", "refresh")>>,
          jwksCalls |-> 2]

\* the key function handed to jwt.Parse (auth0.go lines 97-144): the signing
\* method, the key id, the key set from the cache or fetched on a miss, the key
keyFunc(tok, env, registered) ==
    IF tok.alg # "RS256"
    THEN [err |-> "unexpected signing method", keysFrom |-> "none",
          registered |-> registered, warns |-> <<>>, jwksCalls |-> 0]
    ELSE IF tok.kid.t # "string"
    THEN [err |-> "kid not found in token header", keysFrom |-> "none",
          registered |-> registered, warns |-> <<>>, jwksCalls |-> 0]
    ELSE IF registered /\ env.getOK
    THEN [err |-> IF tok.kid.v \notin KeySetKids THEN "key not found"
                  ELSE IF ~env.rawOK THEN "failed to get raw key" ELSE "",
          keysFrom |-> "cache", registered |-> registered, warns |-> <<>>,
          jwksCalls |-> 1]
    ELSE IF ~env.fetchOK
    THEN [err |-> "failed to fetch JWKS", keysFrom |-> "none",
          registered |-> registered, warns |-> <<>>, jwksCalls |-> 2]
    ELSE LET reg == registered \/ env.registerOK
             w1  == IF env.registerOK THEN <<>>
                    ELSE <<LogEntry("warn", "Failed to register JWKS URL in cache", "register")>>
             w2  == IF reg /\ env.refreshOK THEN <<>>
                    ELSE <<LogEntry("warn", "Failed to refresh JWKS cache", "refresh")>>
         IN  [err |-> IF tok.kid.v \notin KeySetKids THEN "key not found"
                      ELSE IF ~env.rawOK THEN "failed to get raw key" ELSE "",
              keysFrom |-> "fetched", registered |-> reg, warns |-> w1 \o w2,
              jwksCalls |-> 2]

\* the audience the code compares: the string claim, else the first element of
\* the array claim; "panic" when that element is no string (an unchecked
\* type assertion), "missing" when there is none
tokenAudience(tok) ==
    IF tok.aud.t = "string" THEN [kind |-> "value", v |-> tok.aud.v]
    ELSE IF tok.aud.t = "array" /\ Len(tok.aud.arr) > 0
         THEN IF tok.aud.arr[1].t = "string"
              THEN [kind |-> "value", v |-> tok.aud.arr[1].v]
              ELSE [kind |-> "panic", v |-> <<>>]
    ELSE [kind |-> "missing", v |-> <<>>]

\* an audience comparison that accepts every audience beginning with the expected one
audienceMatchesPrefix(aud, cfg) ==
    /\ Len(aud) >= Len(cfg.Audience)
    /\ SubSeq(aud, 1, Len(cfg.Audience)) = cfg.Audience

\* aud != cfg.Audience negated: exact string equality
audienceMatches(aud, cfg) == aud = cfg.Audience

\* an issuer comparison that accepts only the form with the trailing slash
issuerMatchesStrict(iss, cfg) == iss = https \o cfg.Domain \o <<"/">>

\* iss == expectedIss || iss == expectedIssNoSlash
issuerMatches(iss, cfg) ==
    \/ iss = https \o cfg.Domain \o <<"/">>
    \/ iss = https \o cfg.Domain

\* the Auth0User built from the claims (auth0.go lines 186-205)
userFromClaims(tok) ==
    LET sub   == AsString(tok.sub)
        email == AsString(tok.email)
        n0    == extractNameFromClaims(tok)
        n1    == IF n0 = <<>> THEN email ELSE n0
        n2    == IF n1 = <<>> THEN sub ELSE n1
    IN  [present |-> TRUE, Sub |-> sub, Email |-> email, Name |-> n2]

\* the claim checks after jwt.Parse succeeded (auth0.go lines 150-190)
checkClaims(tok, cfg) ==
    LET aud == tokenAudience(tok)
    IN  IF aud.kind = "panic" THEN "panic"
        ELSE IF aud.kind = "missing" THEN "audience not found in token"
        ELSE IF ~audienceMatches(aud.v, cfg) THEN "audience mismatch"
        ELSE IF tok.iss.t # "string" THEN "issuer not found in token"
        ELSE IF ~issuerMatches(tok.iss.v, cfg) THEN "issuer mismatch"
        ELSE IF tok.sub.t # "string" THEN "sub (subject) not found in token"
        ELSE ""

\* validateToken(tokenString, cfg, appLogger): result "" is success, "panic"
\* a run-time panic, anything else the error returned
validateToken(tok, cfg, env, registered) ==
    IF tok.form # "ok"
    THEN [result |-> "failed to parse token: malformed", user |-> NoUser,
          keysFrom |-> "none", registered |-> registered, warns |-> <<>>,
          jwksCalls |-> 0]
    ELSE LET k == keyFunc(tok, env, registered)
             r == IF k.err # "" THEN k.err
                  ELSE IF ~tok.sig THEN "failed to parse token: signature is invalid"
                  ELSE IF ~tok.fresh THEN "failed to parse token: token is expired"
                  ELSE checkClaims(tok, cfg)
         IN  [result |-> r,
              user |-> IF r = "" THEN userFromClaims(tok) ELSE NoUser,
              keysFrom |-> k.keysFrom, registered |-> k.registered,
              warns |-> k.warns, jwksCalls |-> k.jwksCalls]

\* what the userinfo endpoint answers: a failure, or a profile
UserInfos ==
    { [ok |-> FALSE, Sub |-> <<>>, Email |-> <<>>, Name |-> <<>>] } \cup
    { [ok |-> TRUE, Sub |-> subject, Email |-> e, Name |-> n] :
        e \in {<<>>, email1}, n \in {<<>>, nName} }

\* fetchUserInfo's name fallback (auth0.go lines 383-404), for a profile whose
\* given_name, family_name and nickname are empty
fetchUserInfo(info) ==
    LET n1 == IF info.Name = <<>> THEN info.Email ELSE info.Name
        n2 == IF n1 = <<>> THEN info.Sub ELSE n1
    IN  [ok |-> info.ok, Sub |-> info.Sub, Email |-> info.Email, Name |-> n2]

\* validateTokenWithUserInfo: the verified identity, completed from the
\* userinfo endpoint when the token lacks a name or an email
validateTokenWithUserInfo(tok, cfg, env, registered, info) ==
    LET v == validateToken(tok, cfg, env, registered)
        u == v.user
    IN  IF v.result # "" THEN [v EXCEPT !.user = NoUser] @@ [userinfo |-> "none", tokenUser |-> u]
        ELSE IF u.Name # <<>> /\ u.Email # <<>> THEN v @@ [userinfo |-> "none", tokenUser |-> u]
        ELSE LET ui == fetchUserInfo(info)
             IN  IF ~ui.ok
                 THEN [v EXCEPT !.warns = @ \o
                          <<LogEntry("debug", "Failed to fetch userinfo, using token claims", "userinfo")>>]
                      @@ [userinfo |-> "failed", tokenUser |-> u]
                 ELSE LET e1 == IF ui.Email # <<>> THEN ui.Email ELSE u.Email
                          m1 == IF ui.Name # <<>> THEN ui.Name ELSE u.Name
                          m2 == IF m1 = <<>> THEN e1 ELSE m1
                          m3 == IF m2 = <<>> THEN u.Sub ELSE m2
                      IN  [v EXCEPT !.user = [present |-> TRUE, Sub |-> u.Sub,
                                              Email |-> e1, Name |-> m3]]
                          @@ [userinfo |-> "merged", tokenUser |-> u]

\* ------------------------------------------ auth0.go: the constructors
\* the no-op middleware returned when cfg.Enabled is false
Noop == [fn |-> "Noop", required |-> <<>>, cfg |-> NoCfg]

\* Auth0(cfg, appLogger)
Auth0(cfg) ==
    IF ~cfg.Enabled THEN Noop ELSE [fn |-> "Auth0", required |-> <<>>, cfg |-> cfg]

\* OptionalAuth0(cfg, appLogger)
OptionalAuth0(cfg) ==
    IF ~cfg.Enabled THEN Noop ELSE [fn |-> "OptionalAuth0", required |-> <<>>, cfg |-> cfg]

\* the handler a constructor call returns
Construct(inst) ==
    CASE inst.ctor = "RequireAuth"           -> RequireAuth
      [] inst.ctor = "RequireAnyRole"        -> RequireAnyRole(inst.required)
      [] inst.ctor = "RequireAnyPermission"  -> RequireAnyPermission(inst.required)
      [] inst.ctor = "RequireAllPermissions" -> RequireAllPermissions(inst.required)
      [] inst.ctor = "Auth0"                 -> Auth0(inst.cfg)
      [] inst.ctor = "OptionalAuth0"         -> OptionalAuth0(inst.cfg)

\* ----------------------------------------------------------------- Init
Init ==
    /\ pc = "idle"
    /\ installed = [ctor |-> "RequireAuth", required |-> <<>>, cfg |-> NoCfg]
    /\ handler = RequireAuth
    /\ req = [hdr |-> [n \in HeaderNames |-> Absent], jwt |-> MalformedToken]
    /\ index = 1
    /\ written = <<>>
    /\ keys = NoUser
    /\ handlerRuns = 0
    /\ log = <<>>
    /\ trace = NoTrace
    /\ jwksRegistered = FALSE
    /\ verifying = [p \in Procs |-> NoVerification]
    /\ call = NoCall
    /\ chain = NoChain

\* a new request enters a router set up with inst
Begin(inst, r) ==
    /\ pc = "idle"
    /\ pc' = "running"
    /\ installed' = inst
    /\ handler' = Construct(inst)
    /\ req' = r
    /\ index' = 1
    /\ written' = <<>>
    /\ keys' = NoUser
    /\ handlerRuns' = 0
    /\ log' = IF inst.ctor = "Auth0" /\ inst.cfg.Enabled
              THEN <<LogEntry("info", "Auth0 middleware enabled", "")>> ELSE <<>>
    /\ trace' = NoTrace
    /\ UNCHANGED jwksRegistered
    /\ UNCHANGED <<verifying, call, chain>>

\* a request to a route guarded by one of the header checks of rbac.go
ServeRBAC ==
    /\ pc = "idle"
    /\ \E ctor \in {"RequireAuth", "RequireAnyRole", "RequireAnyPermission",
                    "RequireAllPermissions"} :
         \E required \in (CASE ctor = "RequireAuth" -> {<<>>}
                            [] ctor = "RequireAnyRole" -> Lists(ReqRolePool)
                            [] OTHER -> Lists(ReqPermPool)) :
           \E id \in UserIDPool :
             \E roles \in (IF ctor \in {"RequireAuth", "RequireAnyRole"}
                           THEN RolesHeaderPool ELSE {Absent}) :
               \E perms \in (IF ctor \in {"RequireAuth", "RequireAnyPermission",
                                          "RequireAllPermissions"}
                             THEN PermsHeaderPool ELSE {Absent}) :
                 Begin([ctor |-> ctor, required |-> required, cfg |-> NoCfg],
                       [hdr |-> [n \in HeaderNames |->
                                   CASE n = "X-User-ID" -> id
                                     [] n = "X-User-Roles" -> roles
                                     [] n = "X-User-Permissions" -> perms
                                     [] OTHER -> Absent],
                        jwt |-> MalformedToken])

\* a request to a route guarded by one of the bearer-token middlewares
ServeAuth0 ==
    /\ pc = "idle"
    /\ \E ctor \in {"Auth0", "OptionalAuth0"} :
         \E cfg \in Auth0Cfgs :
           \E ht \in ((TokenHeaders \X Tokens) \cup (OtherAuthHeaders \X {GoodToken})) :
             Begin([ctor |-> ctor, required |-> <<>>, cfg |-> cfg],
                   [hdr |-> [n \in HeaderNames |->
                               IF n = "Authorization" THEN ht[1] ELSE Absent],
                    jwt |-> ht[2]])

Running(fn) == pc = "running" /\ index = 1 /\ handler.fn = fn

\* ------------------------------------------------ rbac.go: the handlers
\* Each closure either answers 403 with a message and aborts, or calls
\* c.Next(); its outcome is that message, "" standing for c.Next().

\* the closure returned by RequireAuth (rbac.go lines 21-37)
requireAuthOutcome(r) ==
    IF userIDMissing(r) THEN "Authentication required" ELSE ""

\* the closure returned by RequireAnyRole (rbac.go lines 49-96)
requireAnyRoleOutcome(roles, r) ==
    IF userIDMissing(r) THEN "Authentication required"
    ELSE IF ~hasRole(roles, r) THEN "Insufficient permissions: required role not found"
    ELSE ""

\* the closure returned by RequireAnyPermission (rbac.go lines 109-183)
requireAnyPermissionOutcome(permissions, r) ==
    IF userIDMissing(r) THEN "Authentication required"
    ELSE IF ~hasPermission(permissions, r)
         THEN "Insufficient permissions: required permission not found"
    ELSE ""

\* the closure returned by RequireAllPermissions (rbac.go lines 196-272)
requireAllPermissionsOutcome(permissions, r) ==
    IF userIDMissing(r) THEN "Authentication required"
    ELSE IF Len(missingPermissions(permissions, r)) > 0
         THEN "Insufficient permissions: missing required permissions"
    ELSE ""

\* the outcome of running closure h of rbac.go on request r
rbacOutcome(h, r) ==
    CASE h.fn = "RequireAuth"    -> requireAuthOutcome(r)
      [] h.fn = "AnyRole"        -> requireAnyRoleOutcome(h.required, r)
      [] h.fn = "AnyPermission"  -> requireAnyPermissionOutcome(h.required, r)
      [] h.fn = "AllPermissions" -> requireAllPermissionsOutcome(h.required, r)

\* the warnings logged for the entries the format check drops
FormatWarnings(r, permissions) ==
    LET u == parseCommaSeparated(TrimSpace(GetHeader(r, "X-User-Permissions")))
        bu == SelectSeq(u, LAMBDA p : ~permissionFormatRegex(p))
        br == SelectSeq(permissions, LAMBDA p : ~permissionFormatRegex(p))
    IN  [i \in 1..Len(bu) |-> LogEntry("warn", "Permission has invalid format, filtering out", "")]
        \o [i \in 1..Len(br) |-> LogEntry("warn", "Required permission has invalid format, skipping", "")]

\* the warning logged before a rejection
RejectLog(m) ==
    CASE m = "Insufficient permissions: required role not found" ->
             "User does not have required role"
      [] m = "Insufficient permissions: required permission not found" ->
             "User does not have required permission"
      [] m = "Insufficient permissions: missing required permissions" ->
             "User does not have all required permissions"
      [] OTHER -> "Authentication required but X-User-ID header missing"

\* gin runs a closure of rbac.go: response.Forbidden and c.Abort(), or c.Next()
RunRBAC(m, warnings) ==
    /\ IF m = "Authentication required"
       THEN Reject(Forbidden(m), <<MissingIDEntry>>)
       ELSE IF m # ""
       THEN Reject(Forbidden(m), warnings \o <<LogEntry("warn", RejectLog(m), "")>>)
       ELSE PassOn(warnings)
    /\ UNCHANGED <<pc, installed, handler, req, keys, handlerRuns, trace, jwksRegistered>>
    /\ UNCHANGED <<verifying, call, chain>>

RequireAuthHandler ==
    /\ Running("RequireAuth")
    /\ RunRBAC(requireAuthOutcome(req), <<>>)

RequireAnyRoleHandler ==
    /\ Running("AnyRole")
    /\ RunRBAC(requireAnyRoleOutcome(handler.required, req), <<>>)

RequireAnyPermissionHandler ==
    /\ Running("AnyPermission")
    /\ RunRBAC(requireAnyPermissionOutcome(handler.required, req),
               FormatWarnings(req, handler.required))

RequireAllPermissionsHandler ==
    /\ Running("AllPermissions")
    /\ RunRBAC(requireAllPermissionsOutcome(handler.required, req),
               FormatWarnings(req, handler.required))

\* ----------------------------------------------- auth0.go: the handlers
\* a header check that accepts any scheme
notBearerAnyScheme(authHeader) == Len(Split(authHeader, " ")) # 2

\* len(parts) != 2 || parts[0] != "Bearer" for parts = strings.Split(authHeader, " ")
notBearer(authHeader) ==
    LET parts == Split(authHeader, " ")
    IN  Len(parts) # 2 \/ parts[1] # wBearer

\* the token string parts[1]
bearerToken(authHeader) == Split(authHeader, " ")[2]

\* a failure message that repeats the reason of the failure
failureMessageLeaky(reason) == reason

\* the message Auth0 answers a failed verification with
failureMessage(reason) == "Invalid or expired token"

TraceOf(v, userinfoCalls) ==
    [parseCalls |-> 1, jwksCalls |-> v.jwksCalls, userinfoCalls |-> userinfoCalls,
     result |-> v.result, keysFrom |-> v.keysFrom,
     userinfo |-> IF "userinfo" \in DOMAIN v THEN v.userinfo ELSE "none",
     tokenUser |-> IF "tokenUser" \in DOMAIN v THEN v.tokenUser ELSE v.user,
     userinfoAuth |-> <<>>, userinfoAnswer |-> NoInfo]

\* the Authorization header fetchUserInfo sends (auth0.go line 351)
userinfoRequest(accessToken) == wBearer \o <<" ">> \o accessToken

\* the no-op closure of a disabled Auth0 / OptionalAuth0
NoopHandler ==
    /\ Running("Noop")
    /\ PassOn(<<>>)
    /\ UNCHANGED <<pc, installed, handler, req, keys, handlerRuns, trace, jwksRegistered>>
    /\ UNCHANGED <<verifying, call, chain>>

\* the closure returned by Auth0 when enabled (auth0.go lines 47-88)
Auth0Handler ==
    /\ Running("Auth0")
    /\ LET authHeader == GetHeader(req, "Authorization")
       IN  IF authHeader = <<>>
           THEN /\ Reject(Unauthorized("Authorization header required"),
                          <<LogEntry("warn", "Missing Authorization header", "")>>)
                /\ UNCHANGED <<pc, keys, trace, jwksRegistered>>
           ELSE IF notBearer(authHeader)
           THEN /\ Reject(Unauthorized("Bearer token required"),
                          <<LogEntry("warn", "Invalid Authorization header format", "")>>)
                /\ UNCHANGED <<pc, keys, trace, jwksRegistered>>
           ELSE \E env \in Envs :
                LET v == validateToken(DecodeToken(bearerToken(authHeader), req),
                                       handler.cfg, env, jwksRegistered)
                IN  /\ trace' = TraceOf(v, 0)
                    /\ jwksRegistered' = v.registered
                    /\ IF v.result = "panic"
                       THEN /\ pc' = "panicked"
                            /\ log' = log \o v.warns
                            /\ UNCHANGED <<index, written, keys>>
                       ELSE IF v.result # ""
                       THEN /\ Reject(Unauthorized(failureMessage(v.result)),
                                      v.warns \o <<LogEntry("warn", "Token validation failed", v.result)>>)
                            /\ UNCHANGED <<pc, keys>>
                       ELSE /\ keys' = v.user
                            /\ PassOn(v.warns \o
                                      <<LogEntry("info", "Auth0 token validated successfully", "")>>)
                            /\ UNCHANGED pc
    /\ UNCHANGED <<installed, handler, req, handlerRuns>>
    /\ UNCHANGED <<verifying, call, chain>>

\* the closure returned by OptionalAuth0 when enabled (auth0.go lines 227-264)
OptionalAuth0Handler ==
    /\ Running("OptionalAuth0")
    /\ LET authHeader == GetHeader(req, "Authorization")
       IN  IF authHeader = <<>> \/ notBearer(authHeader)
           THEN /\ PassOn(<<>>)
                /\ UNCHANGED <<pc, keys, trace, jwksRegistered>>
           ELSE \E env \in Envs : \E info \in UserInfos :
                LET v == validateTokenWithUserInfo(
                             DecodeToken(bearerToken(authHeader), req),
                             handler.cfg, env, jwksRegistered, info)
                IN  /\ trace' = IF v.userinfo = "none" THEN TraceOf(v, 0)
                                 ELSE [TraceOf(v, 1) EXCEPT
                                          !.userinfoAuth = userinfoRequest(bearerToken(authHeader)),
                                          !.userinfoAnswer = info]
                    /\ jwksRegistered' = v.registered
                    /\ IF v.result = "panic"
                       THEN /\ pc' = "panicked"
                            /\ log' = log \o v.warns
                            /\ UNCHANGED <<index, written, keys>>
                       ELSE IF v.result # ""
                       THEN /\ PassOn(v.warns \o
                                      <<LogEntry("warn", "Optional Auth0 token validation failed", v.result)>>)
                            /\ UNCHANGED <<pc, keys>>
                       ELSE /\ keys' = v.user
                            /\ PassOn(v.warns \o
                                      <<LogEntry("info", "Auth0 token validated successfully (optional)", "")>>)
                            /\ UNCHANGED pc
    /\ UNCHANGED <<installed, handler, req, handlerRuns>>
    /\ UNCHANGED <<verifying, call, chain>>

\* ------------------------------------------------------ gin: the chain
\* the route handler runs when c.index reaches it
RouteHandler ==
    /\ pc = "running"
    /\ index = HandlerPos
    /\ handlerRuns' = handlerRuns + 1
    /\ written' = Append(written, HandlerReply)
    /\ index' = index + 1
    /\ UNCHANGED <<pc, installed, handler, req, keys, log, trace, jwksRegistered>>
    /\ UNCHANGED <<verifying, call, chain>>

\* no handler is left to run, or the chain was aborted
Complete ==
    /\ pc = "running"
    /\ index > HandlerPos
    /\ pc' = "done"
    /\ UNCHANGED <<installed, handler, req, index, written, keys, handlerRuns, log,
                   trace, jwksRegistered>>
    /\ UNCHANGED <<verifying, call, chain>>

\* the request is over: the next one gets a fresh context and recorder
Recycle ==
    /\ pc \in {"done", "panicked"}
    /\ pc' = "idle"
    /\ installed' = [ctor |-> "RequireAuth", required |-> <<>>, cfg |-> NoCfg]
    /\ handler' = RequireAuth
    /\ req' = [hdr |-> [n \in HeaderNames |-> Absent], jwt |-> MalformedToken]
    /\ index' = 1
    /\ written' = <<>>
    /\ keys' = NoUser
    /\ handlerRuns' = 0
    /\ log' = <<>>
    /\ trace' = NoTrace
    /\ UNCHANGED jwksRegistered
    /\ UNCHANGED <<verifying, call, chain>>

Next ==
    \/ ServeRBAC
    \/ ServeAuth0
    \/ RequireAuthHandler
    \/ RequireAnyRoleHandler
    \/ RequireAnyPermissionHandler
    \/ RequireAllPermissionsHandler
    \/ NoopHandler
    \/ Auth0Handler
    \/ OptionalAuth0Handler
    \/ RouteHandler
    \/ Complete
    \/ Recycle

Spec == Init /\ [][Next]_vars

\* ------------------------------- auth0.go: concurrent key-set retrieval
\* The key function of validateToken (auth0.go lines 97-144) taken one call at
\* a time, for requests that verify tokens against the same key-set URL at
\* once.  jwksCache is the one thing they share; kid and keySet are locals.

\* what the requests outside the key function leave alone
requestState == <<pc, installed, handler, req, index, written, keys, handlerRuns, log, trace,
                  call, chain>>

\* a lookup that goes back to the process-wide cache instead of the local key set
heldKeysShared(own, registered) == IF registered THEN own ELSE "none"

\* the key set LookupKeyID is called on: the local variable keySet
heldKeys(own, registered) == own

\* keySet.LookupKeyID(kid) and key.Raw(&rawKey)
lookupError(kid, keySet, rawOK) ==
    IF keySet = "none" \/ kid \notin KeySetKids THEN "key not found"
    ELSE IF ~rawOK THEN "failed to get raw key"
    ELSE ""

\* the signing method and the kid were accepted (lines 99-107)
EnterKeyFunc(p) ==
    /\ verifying[p].at = "idle"
    /\ \E kid \in {kidKnown, kidUnknown} :
          verifying' = [verifying EXCEPT ![p] = [NoVerification EXCEPT !.at = "get", !.kid = kid]]
    /\ UNCHANGED <<requestState, jwksRegistered>>

\* jwksCache.Get (line 110)
CacheGet(p) ==
    /\ verifying[p].at = "get"
    /\ \E ok \in BOOLEAN :
          verifying' = [verifying EXCEPT ![p] =
                           IF jwksRegistered /\ ok
                           THEN [@ EXCEPT !.keySet = "cache", !.at = "lookup"]
                           ELSE [@ EXCEPT !.at = "fetch"]]
    /\ UNCHANGED <<requestState, jwksRegistered>>

\* jwk.Fetch (lines 113-116)
Fetch(p) ==
    /\ verifying[p].at = "fetch"
    /\ \E ok \in BOOLEAN :
          verifying' = [verifying EXCEPT ![p] =
                           IF ok
                           THEN [@ EXCEPT !.keySet = "fetched", !.at = "register"]
                           ELSE [@ EXCEPT !.err = "failed to fetch JWKS", !.at = "done"]]
    /\ UNCHANGED <<requestState, jwksRegistered>>

\* jwksCache.Register (lines 118-122)
Register(p) ==
    /\ verifying[p].at = "register"
    /\ \E ok \in BOOLEAN :
          /\ jwksRegistered' = (jwksRegistered \/ ok)
          /\ verifying' = [verifying EXCEPT ![p] =
                              [@ EXCEPT !.at = "refresh",
                                        !.warns = IF ok THEN @ ELSE @ \cup {"register"}]]
    /\ UNCHANGED requestState

\* jwksCache.Refresh (lines 124-128)
Refresh(p) ==
    /\ verifying[p].at = "refresh"
    /\ \E ok \in BOOLEAN :
          verifying' = [verifying EXCEPT ![p] =
                           [@ EXCEPT !.at = "lookup",
                                     !.warns = IF jwksRegistered /\ ok THEN @
                                               ELSE @ \cup {"refresh"}]]
    /\ UNCHANGED <<requestState, jwksRegistered>>

\* keySet.LookupKeyID and key.Raw (lines 132-143)
LookupKey(p) ==
    /\ verifying[p].at = "lookup"
    /\ \E rawOK \in BOOLEAN :
          verifying' = [verifying EXCEPT ![p] =
                           [@ EXCEPT !.at = "done",
                                     !.err = lookupError(verifying[p].kid,
                                                 heldKeys(verifying[p].keySet, jwksRegistered),
                                                 rawOK)]]
    /\ UNCHANGED <<requestState, jwksRegistered>>

\* the key function returned; the request's verification is over
LeaveKeyFunc(p) ==
    /\ verifying[p].at = "done"
    /\ verifying' = [verifying EXCEPT ![p] = NoVerification]
    /\ UNCHANGED <<requestState, jwksRegistered>>

\* the next call of request p inside the key function
KeyFuncStep(p) ==
    \/ CacheGet(p)
    \/ Fetch(p)
    \/ Register(p)
    \/ Refresh(p)
    \/ LookupKey(p)

NextConcurrent ==
    \E p \in Procs :
        \/ EnterKeyFunc(p)
        \/ CacheGet(p)
        \/ Fetch(p)
        \/ Register(p)
        \/ Refresh(p)
        \/ LookupKey(p)
        \/ LeaveKeyFunc(p)

SpecConcurrent == Init /\ [][NextConcurrent]_vars

\* --------------------------------------------------- errors: the taxonomy
\* A Go string of the errors and response packages is a sequence of parts, the
\* empty string the empty sequence; + and Sprintf put parts side by side.

StatusCreated == 201
StatusBadRequest == 400
StatusNotFound == 404
StatusConflict == 409
StatusTooManyRequests == 429
StatusInternalServerError == 500
StatusServiceUnavailable == 503

\* common_codes.go
ErrorCodes ==
    { "INVALID_INPUT", "MISSING_FIELD", "INVALID_FORMAT", "VALUE_TOO_LONG", "VALUE_TOO_SHORT",
      "INTERNAL_ERROR", "SERVICE_UNAVAILABLE", "DATABASE_ERROR", "NETWORK_ERROR", "TIMEOUT",
      "UNAUTHORIZED", "FORBIDDEN", "RATE_LIMIT_EXCEEDED", "EXTERNAL_SERVICE_ERROR",
      "BUSINESS_RULE_VIOLATION", "DUPLICATE_ENTRY", "NOT_FOUND" }

\* a status mapping that forgets the rate-limit case
getHTTPStatusNoRateLimit(code) ==
    IF code \in {"INVALID_INPUT", "MISSING_FIELD", "INVALID_FORMAT", "VALUE_TOO_LONG",
                 "VALUE_TOO_SHORT"} THEN StatusBadRequest
    ELSE IF code \in {"BUSINESS_RULE_VIOLATION", "DUPLICATE_ENTRY"} THEN StatusConflict
    ELSE IF code = "NOT_FOUND" THEN StatusNotFound
    ELSE IF code = "UNAUTHORIZED" THEN StatusUnauthorized
    ELSE IF code = "FORBIDDEN" THEN StatusForbidden
    ELSE IF code \in {"SERVICE_UNAVAILABLE", "EXTERNAL_SERVICE_ERROR"} THEN StatusServiceUnavailable
    ELSE StatusInternalServerError

\* getHTTPStatus(code): the switch of the errors package
getHTTPStatus(code) ==
    IF code \in {"INVALID_INPUT", "MISSING_FIELD", "INVALID_FORMAT", "VALUE_TOO_LONG",
                 "VALUE_TOO_SHORT"} THEN StatusBadRequest
    ELSE IF code \in {"BUSINESS_RULE_VIOLATION", "DUPLICATE_ENTRY"} THEN StatusConflict
    ELSE IF code = "NOT_FOUND" THEN StatusNotFound
    ELSE IF code = "UNAUTHORIZED" THEN StatusUnauthorized
    ELSE IF code = "FORBIDDEN" THEN StatusForbidden
    ELSE IF code = "RATE_LIMIT_EXCEEDED" THEN StatusTooManyRequests
    ELSE IF code \in {"SERVICE_UNAVAILABLE", "EXTERNAL_SERVICE_ERROR"} THEN StatusServiceUnavailable
    ELSE IF code \in {"DATABASE_ERROR", "NETWORK_ERROR", "TIMEOUT", "INTERNAL_ERROR"}
         THEN StatusInternalServerError
    ELSE StatusInternalServerError

\* a message lookup whose default is the empty message
getBaseMessageNoDefault(code) ==
    CASE code = "INVALID_INPUT"           -> <<"invalid input provided">>
      [] code = "MISSING_FIELD"           -> <<"missing required field">>
      [] code = "INVALID_FORMAT"          -> <<"invalid format">>
      [] code = "VALUE_TOO_LONG"          -> <<"value exceeds maximum length">>
      [] code = "VALUE_TOO_SHORT"         -> <<"value is too short">>
      [] code = "BUSINESS_RULE_VIOLATION" -> <<"business rule violation">>
      [] code = "DUPLICATE_ENTRY"         -> <<"entry already exists">>
      [] code = "NOT_FOUND"               -> <<"resource not found">>
      [] code = "UNAUTHORIZED"            -> <<MsgUnauthorized>>
      [] code = "FORBIDDEN"               -> <<MsgForbidden>>
      [] code = "INTERNAL_ERROR"          -> <<"internal server error">>
      [] code = "SERVICE_UNAVAILABLE"     -> <<"service temporarily unavailable">>
      [] code = "DATABASE_ERROR"          -> <<"database operation failed">>
      [] code = "NETWORK_ERROR"           -> <<"network operation failed">>
      [] code = "TIMEOUT"                 -> <<"operation timed out">>
      [] code = "EXTERNAL_SERVICE_ERROR"  -> <<"external service error">>
      [] code = "RATE_LIMIT_EXCEEDED"     -> <<"rate limit exceeded">>
      [] OTHER                            -> <<>>

\* getBaseMessage(code)
getBaseMessage(code) ==
    CASE code = "INVALID_INPUT"           -> <<"invalid input provided">>
      [] code = "MISSING_FIELD"           -> <<"missing required field">>
      [] code = "INVALID_FORMAT"          -> <<"invalid format">>
      [] code = "VALUE_TOO_LONG"          -> <<"value exceeds maximum length">>
      [] code = "VALUE_TOO_SHORT"         -> <<"value is too short">>
      [] code = "BUSINESS_RULE_VIOLATION" -> <<"business rule violation">>
      [] code = "DUPLICATE_ENTRY"         -> <<"entry already exists">>
      [] code = "NOT_FOUND"               -> <<"resource not found">>
      [] code = "UNAUTHORIZED"            -> <<MsgUnauthorized>>
      [] code = "FORBIDDEN"               -> <<MsgForbidden>>
      [] code = "INTERNAL_ERROR"          -> <<"internal server error">>
      [] code = "SERVICE_UNAVAILABLE"     -> <<"service temporarily unavailable">>
      [] code = "DATABASE_ERROR"          -> <<"database operation failed">>
      [] code = "NETWORK_ERROR"           -> <<"network operation failed">>
      [] code = "TIMEOUT"                 -> <<"operation timed out">>
      [] code = "EXTERNAL_SERVICE_ERROR"  -> <<"external service error">>
      [] code = "RATE_LIMIT_EXCEEDED"     -> <<"rate limit exceeded">>
      [] OTHER                            -> <<"internal server error">>

\* GetMessage(code, context...): context is the list of the variadic arguments
GetMessage(code, context) ==
    IF Len(context) > 0 THEN getBaseMessage(code) \o <<": ">> \o context[1]
    ELSE getBaseMessage(code)

\* an error value: a wrapped cause or nil
NoCause == "nil"
Cause == "underlying error"

\* New(code, message)
New(code, message) ==
    [Code |-> code, Message |-> message, Details |-> <<>>,
     HTTPStatus |-> getHTTPStatus(code), Err |-> NoCause]

\* NewWithDetails(code, message, details)
NewWithDetails(code, message, details) ==
    [Code |-> code, Message |-> message, Details |-> details,
     HTTPStatus |-> getHTTPStatus(code), Err |-> NoCause]

\* Wrap(err, code, message)
Wrap(err, code, message) ==
    [Code |-> code, Message |-> message, Details |-> <<>>,
     HTTPStatus |-> getHTTPStatus(code), Err |-> err]

\* WrapWithDetails(err, code, message, details)
WrapWithDetails(err, code, message, details) ==
    [Code |-> code, Message |-> message, Details |-> details,
     HTTPStatus |-> getHTTPStatus(code), Err |-> err]

\* the common constructors that other packages of the module call
NewInvalidInput(message) == New("INVALID_INPUT", message)

NewInternalError(err) == Wrap(err, "INTERNAL_ERROR", <<"internal server error">>)

\* the inputs of the calls
CodePool == ErrorCodes \cup {"", "CUSTOM_ERROR", "internal_error"}

TextPool == { <<>>, <<"boom">> }

CausePool == {NoCause, Cause}

LengthPool == {0, 255}

CommonConstructors ==
    { "NewInvalidInput", "NewMissingField", "NewInvalidFormat", "NewValueTooLong",
      "NewValueTooShort", "NewBusinessRule", "NewNotFound", "NewDuplicateEntry",
      "NewDatabaseError", "NewServiceUnavailable", "NewInternalError", "NewNetworkError",
      "NewTimeoutError", "NewUnauthorized", "NewForbidden", "NewRateLimitExceeded",
      "NewExternalServiceError" }

\* the common constructors, by name: NewInvalidInput(message), NewMissingField(field),
\* NewInvalidFormat(field, format), NewValueTooLong(field, maxLength),
\* NewValueTooShort(field, minLength), NewBusinessRule(message), NewNotFound(resource),
\* NewDuplicateEntry(resource), NewDatabaseError(err), NewServiceUnavailable(service),
\* NewInternalError(err), NewNetworkError(err), NewTimeoutError(operation),
\* NewUnauthorized(message), NewForbidden(message), NewRateLimitExceeded(message),
\* NewExternalServiceError(service, err); text stands for the one text argument
commonError(name, text, format, length, err) ==
    CASE name = "NewInvalidInput" ->
             NewInvalidInput(text)
      [] name = "NewMissingField" ->
             New("MISSING_FIELD", GetMessage("MISSING_FIELD", <<text>>))
      [] name = "NewInvalidFormat" ->
             New("INVALID_FORMAT", GetMessage("INVALID_FORMAT", << <<"field '">> \o text \o <<"': expected ">> \o format >>))
      [] name = "NewValueTooLong" ->
             New("VALUE_TOO_LONG", GetMessage("VALUE_TOO_LONG", << <<"field '">> \o text \o <<"': max ", ToString(length), " characters">> >>))
      [] name = "NewValueTooShort" ->
             New("VALUE_TOO_SHORT", GetMessage("VALUE_TOO_SHORT", << <<"field '">> \o text \o <<"': min ", ToString(length), " characters">> >>))
      [] name = "NewBusinessRule" ->
             New("BUSINESS_RULE_VIOLATION", GetMessage("BUSINESS_RULE_VIOLATION", <<text>>))
      [] name = "NewNotFound" ->
             New("NOT_FOUND", GetMessage("NOT_FOUND", <<text>>))
      [] name = "NewDuplicateEntry" ->
             New("DUPLICATE_ENTRY", GetMessage("DUPLICATE_ENTRY", <<text>>))
      [] name = "NewDatabaseError" ->
             Wrap(err, "DATABASE_ERROR", <<"failed to execute operation">>)
      [] name = "NewServiceUnavailable" ->
             New("SERVICE_UNAVAILABLE", GetMessage("SERVICE_UNAVAILABLE", <<text>>))
      [] name = "NewInternalError" ->
             NewInternalError(err)
      [] name = "NewNetworkError" ->
             Wrap(err, "NETWORK_ERROR", <<"network operation failed">>)
      [] name = "NewTimeoutError" ->
             New("TIMEOUT", GetMessage("TIMEOUT", <<text>>))
      [] name = "NewUnauthorized" ->
             New("UNAUTHORIZED", IF text = <<>> THEN <<MsgUnauthorized>> ELSE text)
      [] name = "NewForbidden" ->
             New("FORBIDDEN", IF text = <<>> THEN <<MsgForbidden>> ELSE text)
      [] name = "NewRateLimitExceeded" ->
             New("RATE_LIMIT_EXCEEDED", IF text = <<>> THEN <<"rate limit exceeded">> ELSE text)
      [] name = "NewExternalServiceError" ->
             Wrap(err, "EXTERNAL_SERVICE_ERROR", GetMessage("EXTERNAL_SERVICE_ERROR", <<text>>))

\* what a call leaves alone
besidesCall == <<pc, installed, handler, req, index, written, keys, handlerRuns, log, trace,
                 jwksRegistered, verifying, chain>>

\* a call returned: its name, its input and its result
Returned(fn, in, out) == [fn |-> fn, in |-> in, out |-> out]

CallNew ==
    /\ \E code \in CodePool : \E message \in TextPool :
           call' = Returned("New", [code |-> code], New(code, message))
    /\ UNCHANGED besidesCall

CallNewWithDetails ==
    /\ \E code \in CodePool : \E message \in TextPool : \E details \in TextPool :
           call' = Returned("NewWithDetails", [code |-> code], NewWithDetails(code, message, details))
    /\ UNCHANGED besidesCall

CallWrap ==
    /\ \E err \in CausePool : \E code \in CodePool : \E message \in TextPool :
           call' = Returned("Wrap", [code |-> code], Wrap(err, code, message))
    /\ UNCHANGED besidesCall

CallWrapWithDetails ==
    /\ \E err \in CausePool : \E code \in CodePool : \E message \in TextPool :
         \E details \in TextPool :
           call' = Returned("WrapWithDetails", [code |-> code],
                    WrapWithDetails(err, code, message, details))
    /\ UNCHANGED besidesCall

CallCommonConstructor ==
    /\ \E name \in CommonConstructors : \E text \in TextPool : \E format \in TextPool :
         \E length \in LengthPool : \E err \in CausePool :
           call' = Returned(name, [code |-> "by name"], commonError(name, text, format, length, err))
    /\ UNCHANGED besidesCall

CallGetMessage ==
    /\ \E code \in CodePool : \E context \in {<<>>, << <<"boom">> >>, << <<"boom">>, <<"more">> >>} :
           call' = Returned("GetMessage", [code |-> code, context |-> context], GetMessage(code, context))
    /\ UNCHANGED besidesCall

\* ------------------------------------------------ response: the envelope
\* an error value handed to a responder: nil, a plain error, or an *AppError
NilError == [kind |-> "nil"]
PlainError == [kind |-> "plain"]
AppErr(e) == [kind |-> "app", e |-> e]

\* GetAppError(err): the *AppError, or nil
GetAppError(err) == IF err.kind = "app" THEN err ELSE NilError

\* IsAppError(err)
IsAppError(err) == err.kind = "app"

\* the Error field of an APIResponse: nil, or an *APIError
NoAPIError == [present |-> FALSE, Code |-> "", Message |-> <<>>, Details |-> <<>>]
APIError(code, message, details) ==
    [present |-> TRUE, Code |-> code, Message |-> message, Details |-> details]

\* the APIResponse struct; Data is an interface value, "nil" or something
APIResponse(success, message, data, error) ==
    [Success |-> success, Message |-> message, Data |-> data, Error |-> error]

\* an encoding whose data field is not omitempty: data is always written
JSONDataAlways(status, response) ==
    [ kind |-> "json", status |-> status,
      success |-> response.Success,
      hasMessage |-> response.Message # <<>>,
      hasData |-> TRUE,
      hasError |-> response.Error.present,
      code |-> response.Error.Code,
      message |-> response.Error.Message,
      hasDetails |-> response.Error.present /\ response.Error.Details # <<>> ]

\* c.JSON(status, response): encoding/json with the struct's tags: message,
\* data, error and details are omitempty, success and code are always written
JSON(status, response) ==
    [ kind |-> "json", status |-> status,
      success |-> response.Success,
      hasMessage |-> response.Message # <<>>,
      hasData |-> response.Data # "nil",
      hasError |-> response.Error.present,
      code |-> response.Error.Code,
      message |-> response.Error.Message,
      hasDetails |-> response.Error.present /\ response.Error.Details # <<>> ]

\* the call panicked: nothing was written
Panic == [kind |-> "panic"]

\* Success(c, data)
Success(data) == JSON(StatusOK, APIResponse(TRUE, <<>>, data, NoAPIError))

\* SuccessWithMessage(c, message, data)
SuccessWithMessage(message, data) == JSON(StatusOK, APIResponse(TRUE, message, data, NoAPIError))

\* Created(c, data)
Created(data) == JSON(StatusCreated, APIResponse(TRUE, <<>>, data, NoAPIError))

\* an Error that passes a plain error on as it is, without a code
ErrorUncoerced(err) ==
    IF err.kind = "app"
    THEN JSON(err.e.HTTPStatus,
              APIResponse(FALSE, <<>>, "nil", APIError(err.e.Code, err.e.Message, err.e.Details)))
    ELSE JSON(StatusInternalServerError,
              APIResponse(FALSE, <<>>, "nil", APIError("", <<"error">>, <<>>)))

\* Error(c, err)
Error(err) ==
    LET found  == GetAppError(err)
        appErr == IF found = NilError
                  THEN NewInternalError(IF err.kind = "plain" THEN Cause ELSE NoCause)
                  ELSE found.e
    IN  JSON(appErr.HTTPStatus,
             APIResponse(FALSE, <<>>, "nil",
                         APIError(appErr.Code, appErr.Message, appErr.Details)))

\* ErrorWithMessage(c, err, message)
ErrorWithMessage(err, message) ==
    LET found  == GetAppError(err)
        appErr == IF found = NilError
                  THEN NewInternalError(IF err.kind = "plain" THEN Cause ELSE NoCause)
                  ELSE found.e
    IN  JSON(appErr.HTTPStatus,
             APIResponse(FALSE, <<>>, "nil", APIError(appErr.Code, message, appErr.Details)))

\* BadRequest(c, message)
BadRequest(message) ==
    JSON(StatusBadRequest, APIResponse(FALSE, <<>>, "nil", APIError("INVALID_INPUT", message, <<>>)))

\* NotFound(c, resource)
NotFound(resource) ==
    JSON(StatusNotFound,
         APIResponse(FALSE, <<>>, "nil",
                     APIError("NOT_FOUND", GetMessage("NOT_FOUND", <<resource>>), <<>>)))

\* Conflict(c, message)
Conflict(message) ==
    JSON(StatusConflict,
         APIResponse(FALSE, <<>>, "nil", APIError("BUSINESS_RULE_VIOLATION", message, <<>>)))

\* InternalServerError(c, message)
InternalServerError(message) ==
    JSON(StatusInternalServerError,
         APIResponse(FALSE, <<>>, "nil",
                     APIError("INTERNAL_ERROR",
                              IF message = <<>> THEN <<"internal server error">> ELSE message,
                              <<>>)))

\* ServiceUnavailable(c, message)
ServiceUnavailable(message) ==
    JSON(StatusServiceUnavailable,
         APIResponse(FALSE, <<>>, "nil",
                     APIError("SERVICE_UNAVAILABLE",
                              IF message = <<>> THEN <<"service temporarily unavailable">>
                              ELSE message,
                              <<>>)))

\* the envelope of Unauthorized and Forbidden, as written by c.JSON
FixedAuthJSON(env) ==
    JSON(env.status, APIResponse(env.success, <<>>, "nil", APIError(env.code, <<env.message>>, <<>>)))

\* Go's integer division: the quotient truncated toward zero
GoDiv(a, b) ==
    LET abs(x) == IF x < 0 THEN -x ELSE x
        q      == abs(a) \div abs(b)
    IN  IF (a < 0) = (b < 0) THEN q ELSE -q

\* the largest and the smallest int
MaxInt == 2^(IntBits - 1) - 1
MinInt == -MaxInt - 1

\* the int a sum or a difference of ints is stored as: it wraps around
WrapInt(x) == ((x - MinInt) % (2^IntBits)) + MinInt

\* a Paginated that answers a page size of zero with an empty page count
PaginatedGuarded(data, page, pageSize, total) ==
    LET totalPages == IF pageSize = 0 THEN 0
                      ELSE GoDiv(WrapInt(WrapInt(total + pageSize) - 1), pageSize)
    IN  JSON(StatusOK, APIResponse(TRUE, <<>>, "map", NoAPIError)) @@
        [ page |-> page, pageSize |-> pageSize, total |-> total,
          totalPages |-> totalPages, hasNext |-> page < totalPages,
          hasPrev |-> page > 1, items |-> data ]

\* Paginated(c, data, page, pageSize, total): a division by zero panics
Paginated(data, page, pageSize, total) ==
    IF pageSize = 0 THEN Panic
    ELSE LET totalPages == GoDiv(WrapInt(WrapInt(total + pageSize) - 1), pageSize)
         IN  JSON(StatusOK, APIResponse(TRUE, <<>>, "map", NoAPIError)) @@
             [ page |-> page, pageSize |-> pageSize, total |-> total,
               totalPages |-> totalPages, hasNext |-> page < totalPages,
               hasPrev |-> page > 1, items |-> data ]

\* a ValidationError that answers with the status the error carries
ValidationErrorByCode(validationErr) ==
    LET found  == GetAppError(validationErr)
        appErr == IF found = NilError THEN NewInvalidInput(<<"validation failed">>)
                  ELSE found.e
    IN  JSON(appErr.HTTPStatus,
             APIResponse(FALSE, <<>>, "nil",
                         APIError(appErr.Code, appErr.Message, appErr.Details)))

\* ValidationError(c, validationErr)
ValidationError(validationErr) ==
    LET found  == GetAppError(validationErr)
        appErr == IF found = NilError THEN NewInvalidInput(<<"validation failed">>)
                  ELSE found.e
    IN  JSON(StatusBadRequest,
             APIResponse(FALSE, <<>>, "nil",
                         APIError(appErr.Code, appErr.Message, appErr.Details)))

\* Health(c, status, checks)
Health(status, checks) ==
    LET ok == status \in {"healthy", "ok"}
    IN  JSON(IF ok THEN StatusOK ELSE StatusServiceUnavailable,
             APIResponse(ok, <<>>, "map", NoAPIError)) @@ [health |-> status]

\* the inputs of the responders
DataPool == {"nil", "value"}

ErrorPool ==
    {NilError, PlainError} \cup
    { AppErr(New(code, <<"boom">>)) : code \in CodePool } \cup
    { AppErr(NewWithDetails("NOT_FOUND", <<"boom">>, <<"more">>)),
      AppErr(NewInternalError(Cause)) }

PlainTexts == {"", "boom"}

HealthPool == {"healthy", "ok", "degraded", "unhealthy", ""}

PagePool == {1, 2, 3}

PageSizePool == {0, 1, 10, MaxInt}

TotalPool == {0, 1, 10, 25, MaxInt}

CallSuccess ==
    /\ \E data \in DataPool : call' = Returned("Success", [data |-> data], Success(data))
    /\ UNCHANGED besidesCall

CallSuccessWithMessage ==
    /\ \E message \in TextPool : \E data \in DataPool :
           call' = Returned("SuccessWithMessage", [data |-> data], SuccessWithMessage(message, data))
    /\ UNCHANGED besidesCall

CallCreated ==
    /\ \E data \in DataPool : call' = Returned("Created", [data |-> data], Created(data))
    /\ UNCHANGED besidesCall

CallError ==
    /\ \E err \in ErrorPool : call' = Returned("Error", [err |-> err], Error(err))
    /\ UNCHANGED besidesCall

CallErrorWithMessage ==
    /\ \E err \in ErrorPool : \E message \in TextPool :
           call' = Returned("ErrorWithMessage", [err |-> err], ErrorWithMessage(err, message))
    /\ UNCHANGED besidesCall

CallFixedStatus ==
    /\ \/ \E message \in TextPool :
             \/ call' = Returned("BadRequest", [message |-> message], BadRequest(message))
             \/ call' = Returned("NotFound", [message |-> message], NotFound(message))
             \/ call' = Returned("Conflict", [message |-> message], Conflict(message))
             \/ call' = Returned("InternalServerError", [message |-> message], InternalServerError(message))
             \/ call' = Returned("ServiceUnavailable", [message |-> message], ServiceUnavailable(message))
       \/ \E message \in PlainTexts :
             \/ call' = Returned("Unauthorized", [message |-> message], FixedAuthJSON(Unauthorized(message)))
             \/ call' = Returned("Forbidden", [message |-> message], FixedAuthJSON(Forbidden(message)))
    /\ UNCHANGED besidesCall

CallPaginated ==
    /\ \E data \in DataPool : \E page \in PagePool : \E pageSize \in PageSizePool :
         \E total \in TotalPool :
           call' = Returned("Paginated", [data |-> data, page |-> page, pageSize |-> pageSize,
                                  total |-> total],
                    Paginated(data, page, pageSize, total))
    /\ UNCHANGED besidesCall

CallValidationError ==
    /\ \E err \in ErrorPool :
           call' = Returned("ValidationError", [err |-> err], ValidationError(err))
    /\ UNCHANGED besidesCall

CallHealth ==
    /\ \E status \in HealthPool : \E checks \in DataPool :
           call' = Returned("Health", [status |-> status], Health(status, checks))
    /\ UNCHANGED besidesCall

\* ------------------------------------------------ validation: ValidateStruct
\* a validator.FieldError: the field, the tag of the rule it broke, the rule's parameter
FieldError(field, tag, param) == [field |-> field, tag |-> tag, param |-> param]

\* getValidationMessage(err)
getValidationMessage(err) ==
    CASE err.tag = "required"      -> <<err.field, " is required">>
      [] err.tag = "min"           -> <<err.field, " must be at least ", err.param, " characters long">>
      [] err.tag = "max"           -> <<err.field, " must be no more than ", err.param, " characters long">>
      [] err.tag = "email"         -> <<err.field, " must be a valid email address">>
      [] err.tag = "alphanumspace" -> <<err.field, " must contain only letters, numbers, and spaces">>
      [] err.tag = "companyname"   -> <<err.field, " must be a valid company name">>
      [] err.tag = "ssn"           -> <<err.field, " must be a valid SSN (9 digits)">>
      [] err.tag = "phone"         -> <<err.field, " must be a valid phone number">>
      [] err.tag = "len"           -> <<err.field, " must be exactly ", err.param, " characters long">>
      [] err.tag = "numeric"       -> <<err.field, " must contain only numbers">>
      [] err.tag = "alpha"         -> <<err.field, " must contain only letters">>
      [] err.tag = "alphanum"      -> <<err.field, " must contain only letters and numbers">>
      [] OTHER                     -> <<err.field, " is invalid">>

\* vs.validator.Struct(s) of go-playground/validator: nil for a struct (or a
\* pointer to one) that breaks no rule, ValidationErrors for one that breaks
\* some, and an *InvalidValidationError for anything that is not a struct:
\* nil, a nil pointer, a value of another kind
validatorStruct(s) ==
    IF s.kind \in {"struct", "pointer"}
    THEN IF s.broken = <<>> THEN [is |-> "nil"]
         ELSE [is |-> "ValidationErrors", errors |-> s.broken]
    ELSE [is |-> "InvalidValidationError"]

\* a ValidateStruct that asserts err.(validator.ValidationErrors) unchecked
ValidateStructUnchecked(s) ==
    LET err == validatorStruct(s)
    IN  IF err.is = "nil" THEN [kind |-> "result", IsValid |-> TRUE, Errors |-> <<>>]
        ELSE IF err.is = "ValidationErrors"
        THEN [kind |-> "result", IsValid |-> FALSE,
              Errors |-> [i \in 1..Len(err.errors) |->
                            [Field |-> err.errors[i].field,
                             Message |-> getValidationMessage(err.errors[i]),
                             Code |-> err.errors[i].tag]]]
        ELSE Panic

\* ValidateStruct(s)
ValidateStruct(s) ==
    LET err == validatorStruct(s)
    IN  IF err.is = "nil" THEN [kind |-> "result", IsValid |-> TRUE, Errors |-> <<>>]
        ELSE IF err.is = "ValidationErrors"
        THEN [kind |-> "result", IsValid |-> FALSE,
              Errors |-> [i \in 1..Len(err.errors) |->
                            [Field |-> err.errors[i].field,
                             Message |-> getValidationMessage(err.errors[i]),
                             Code |-> err.errors[i].tag]]]
        ELSE [kind |-> "result", IsValid |-> FALSE,
              Errors |-> << [Field |-> "field", Message |-> <<"validation failed">>,
                             Code |-> "VALIDATION_ERROR"] >>]

\* the rules a struct of the calls breaks
FieldErrorPool ==
    { FieldError("Name", "required", ""), FieldError("Name", "min", "2"),
      FieldError("Email", "email", ""), FieldError("Code", "oneof", "a b") }

\* the values handed to ValidateStruct
StructPool ==
    { [kind |-> k, broken |-> <<>>] : k \in {"nil", "nil pointer", "string", "int", "slice"} } \cup
    { [kind |-> k, broken |-> b] :
        k \in {"struct", "pointer"},
        b \in {<<>>} \cup { <<e>> : e \in FieldErrorPool }
                     \cup { <<e, f>> : e \in FieldErrorPool, f \in FieldErrorPool } }

CallValidateStruct ==
    /\ \E s \in StructPool : call' = Returned("ValidateStruct", [s |-> s], ValidateStruct(s))
    /\ UNCHANGED besidesCall

\* ------------------------------------------------ logger
\* zapcore.Level of the five levels the package logs at
zapcoreLevel(name) ==
    CASE name = "debug" -> -1
      [] name = "info"  -> 0
      [] name = "warn"  -> 1
      [] name = "error" -> 2
      [] name = "fatal" -> 5

\* NewZapLoggerFromConfig(level, environment): the switch knows the four
\* lower-case names and takes every other string as info
NewZapLoggerFromConfig(level, environment) ==
    [ level  |-> IF level \in {"debug", "info", "warn", "error"} THEN zapcoreLevel(level)
                 ELSE zapcoreLevel("info"),
      fields |-> <<>> ]

\* LogLevel.String()
LogLevelString(l) ==
    CASE l = "DEBUG" -> "DEBUG"
      [] l = "INFO"  -> "INFO"
      [] l = "WARN"  -> "WARN"
      [] l = "ERROR" -> "ERROR"
      [] OTHER       -> "UNKNOWN"

\* ParseLogLevel(level): a LogLevel, written by the name of its constant
ParseLogLevel(level) ==
    CASE level \in {"debug", "DEBUG"}                      -> "DEBUG"
      [] level \in {"info", "INFO"}                        -> "INFO"
      [] level \in {"warn", "WARN", "warning", "WARNING"}  -> "WARN"
      [] level \in {"error", "ERROR"}                      -> "ERROR"
      [] OTHER                                             -> "INFO"

\* zl.WithService(service) and zl.WithRequestID(requestID): zap's With appends
WithField(zl, key, value) ==
    [zl EXCEPT !.fields = Append(@, [key |-> key, value |-> value])]

\* New(level, service) of the logger package
NewLogger(level, service) ==
    LET levelStr == LogLevelString(level)
    IN  WithField(NewZapLoggerFromConfig(levelStr, "production"), "service", service)

\* NewFromEnv(service), given what os.Getenv("LOG_LEVEL") returns
NewFromEnv(getenv, service) ==
    LET levelStr == IF getenv = "" THEN "info" ELSE getenv
    IN  NewLogger(ParseLogLevel(levelStr), service)

\* a context: the values stored in it, the latest last; a key is its type and its text
Background == <<>>

StringKey == [type |-> "string", text |-> "requestId"]

RequestIDKey == [type |-> "contextKey", text |-> "requestId"]

\* context.WithValue(ctx, key, value)
WithValue(ctx, key, value) == Append(ctx, [key |-> key, value |-> value])

\* ctx.Value(key): the latest value stored under an equal key, of equal type
\* and equal text, or nil
Value(ctx, key) ==
    LET at == { i \in 1..Len(ctx) : ctx[i].key = key }
    IN  IF at = {} THEN [t |-> "nil"]
        ELSE ctx[CHOOSE i \in at : \A j \in at : j <= i].value

\* WithRequestID(ctx, requestID) of the logger package
WithRequestID(ctx, requestID) == WithValue(ctx, RequestIDKey, [t |-> "string", v |-> requestID])

\* getRequestIDFromContext(ctx)
getRequestIDFromContext(ctx) ==
    LET found == Value(ctx, StringKey)
    IN  IF found.t = "string" THEN found.v ELSE ""

\* NewContextLogger(ctx, service), the standalone function
NewContextLogger(getenv, ctx, service) ==
    LET zapLogger == NewFromEnv(getenv, service)
        requestID == getRequestIDFromContext(ctx)
        named     == WithField(zapLogger, "service", service)
    IN  IF requestID # "" THEN WithField(named, "requestId", requestID) ELSE named

\* Debug, Info, Warn, Error and Fatal of ZapLogger and ZapContextLogger: the
\* wrapper's own gate (Fatal has none), then zap's, set to the same level
Emit(zl, recordLevel) ==
    IF /\ (recordLevel = "fatal" \/ zl.level <= zapcoreLevel(recordLevel))
       /\ zl.level <= zapcoreLevel(recordLevel)
    THEN [kind |-> "record", level |-> recordLevel, fields |-> zl.fields,
          exits |-> recordLevel = "fatal"]
    ELSE [kind |-> "dropped", level |-> recordLevel, fields |-> <<>>, exits |-> FALSE]

\* the inputs of the logger
RecordLevels == {"debug", "info", "warn", "error", "fatal"}

LevelNames == {"debug", "info", "warn", "error", "DEBUG", "warning", "fatal", ""}

ServicePool == {"svc", ""}

CtxPool ==
    { Background,
      WithRequestID(Background, "req-1"),
      WithValue(Background, StringKey, [t |-> "string", v |-> "req-2"]),
      WithValue(Background, StringKey, [t |-> "int", v |-> "7"]),
      WithRequestID(WithValue(Background, StringKey, [t |-> "string", v |-> "req-2"]), "req-1"),
      WithRequestID(Background, "") }

CallLogConfigured ==
    /\ \E level \in LevelNames : \E environment \in {"production", "development"} :
         \E recordLevel \in RecordLevels :
           call' = Returned("LogConfigured", [level |-> level, record |-> recordLevel],
                            Emit(NewZapLoggerFromConfig(level, environment), recordLevel))
    /\ UNCHANGED besidesCall

CallLogNew ==
    /\ \E level \in {"DEBUG", "INFO", "WARN", "ERROR"} : \E service \in ServicePool :
         \E recordLevel \in RecordLevels :
           call' = Returned("LogNew", [level |-> level, record |-> recordLevel],
                            Emit(NewLogger(level, service), recordLevel))
    /\ UNCHANGED besidesCall

CallLogFromEnv ==
    /\ \E getenv \in LevelNames : \E service \in ServicePool : \E recordLevel \in RecordLevels :
           call' = Returned("LogFromEnv", [level |-> getenv, record |-> recordLevel],
                            Emit(NewFromEnv(getenv, service), recordLevel))
    /\ UNCHANGED besidesCall

CallContextLog ==
    /\ \E getenv \in LevelNames : \E ctx \in CtxPool : \E service \in ServicePool :
         \E recordLevel \in RecordLevels :
           call' = Returned("ContextLog",
                            [level |-> getenv, record |-> recordLevel, ctx |-> ctx,
                             service |-> service],
                            Emit(NewContextLogger(getenv, ctx, service), recordLevel))
    /\ UNCHANGED besidesCall

\* ------------------------------------------------ database: HealthCheck
\* the handles HealthCheck is called with: nil, a handle whose DB() fails, one
\* whose connection is closed, one that answers
DBPool == {"nil", "no sql.DB", "closed", "open"}

\* HealthCheck(db): db.DB() reads a field of the handle, which is a nil
\* pointer dereference for a nil handle; there is no test for nil before it
HealthCheck(db) ==
    IF db = "nil" THEN Panic
    ELSE IF db = "no sql.DB"
    THEN [kind |-> "error",
          e |-> Wrap(Cause, "DATABASE_ERROR", <<"failed to get underlying sql.DB">>)]
    ELSE IF db = "closed"
    THEN [kind |-> "error", e |-> Wrap(Cause, "DATABASE_ERROR", <<"health check failed">>)]
    ELSE [kind |-> "nil"]

CallHealthCheck ==
    /\ \E db \in DBPool : call' = Returned("HealthCheck", [db |-> db], HealthCheck(db))
    /\ UNCHANGED besidesCall

NextLibrary ==
    \/ CallNew
    \/ CallNewWithDetails
    \/ CallWrap
    \/ CallWrapWithDetails
    \/ CallCommonConstructor
    \/ CallGetMessage
    \/ CallSuccess
    \/ CallSuccessWithMessage
    \/ CallCreated
    \/ CallError
    \/ CallErrorWithMessage
    \/ CallFixedStatus
    \/ CallPaginated
    \/ CallValidationError
    \/ CallHealth
    \/ CallValidateStruct
    \/ CallLogConfigured
    \/ CallLogNew
    \/ CallLogFromEnv
    \/ CallContextLog
    \/ CallHealthCheck

SpecLibrary == Init /\ [][NextLibrary]_vars

\* ------------------------------------------------ middleware.go: the chain
\* router.Use(Logger(), CORS(corsMaxAge), <authentication>), then the route handler
ChainHandlers == <<"Logger", "CORS", "Auth", "Handler">>

\* c.Header(key, value)
SetHeader(c, key, value) == [c EXCEPT !.headers[key] = value]

\* c.AbortWithStatus(code): the status is written and c.index becomes abortIndex
AbortWithStatus(c, code) == [c EXCEPT !.status = code, !.index = abortIndex]

\* c.Next() as the last statement of a handler: the next handler of the chain runs
CallNext(c) == [c EXCEPT !.index = @ + 1]

\* the four headers CORS sets on every request
corsHeaders(c) ==
    LET origin == c.origin
        c1 == IF origin # "" THEN SetHeader(c, AllowOrigin, origin)
              ELSE SetHeader(c, AllowOrigin, "*")
        c2 == SetHeader(c1, "Access-Control-Allow-Methods", "GET, POST, PUT, DELETE, OPTIONS")
        c3 == SetHeader(c2, "Access-Control-Allow-Headers",
                        "Origin, Content-Type, Accept, Authorization")
    IN  SetHeader(c3, "Access-Control-Max-Age", ToString(c.corsMaxAge))

\* a CORS that answers a preflight request 204 without aborting the chain
CORSNoAbort(c) ==
    IF c.method = "OPTIONS" THEN CallNext([corsHeaders(c) EXCEPT !.status = 204])
    ELSE CallNext(corsHeaders(c))

\* the closure CORS(corsMaxAge) returns
CORS(c) ==
    IF c.method = "OPTIONS" THEN AbortWithStatus(corsHeaders(c), 204)
    ELSE CallNext(corsHeaders(c))

\* the inputs of the chain
MethodPool == {"GET", "POST", "PUT", "DELETE", "OPTIONS", "HEAD"}

OriginPool == {"", "https://example.com", "null"}

MaxAgePool == {0, 86400}

\* a handler of the chain is entered
Enter(c, name) == [c EXCEPT !.ran = Append(@, name)]

besidesChain == <<pc, installed, handler, req, index, written, keys, handlerRuns, log, trace,
                  jwksRegistered, verifying, call>>

\* a request arrives
ServeChain ==
    /\ chain.pc = "idle"
    /\ \E method \in MethodPool : \E origin \in OriginPool : \E corsMaxAge \in MaxAgePool :
         \E authorized \in BOOLEAN :
           chain' = [NoChain EXCEPT !.pc = "running", !.method = method, !.origin = origin,
                                     !.corsMaxAge = corsMaxAge, !.authorized = authorized,
                                     !.index = 1]
    /\ UNCHANGED besidesChain

\* Logger: gin's logger calls c.Next() and writes its record when the chain returns
RunLogger ==
    /\ chain.pc = "running"
    /\ chain.index = 1
    /\ chain' = CallNext(Enter(chain, "Logger"))
    /\ UNCHANGED besidesChain

RunCORS ==
    /\ chain.pc = "running"
    /\ chain.index = 2
    /\ chain' = CORS(Enter(chain, "CORS"))
    /\ UNCHANGED besidesChain

\* the authentication or authorization middleware: it answers 401 and aborts,
\* or calls c.Next()
RunAuth ==
    /\ chain.pc = "running"
    /\ chain.index = 3
    /\ chain' = IF chain.authorized THEN CallNext(Enter(chain, "Auth"))
                ELSE AbortWithStatus(Enter(chain, "Auth"), StatusUnauthorized)
    /\ UNCHANGED besidesChain

\* the route handler answers 200
RunRouteHandler ==
    /\ chain.pc = "running"
    /\ chain.index = 4
    /\ chain' = [Enter(chain, "Handler") EXCEPT !.status = StatusOK, !.index = @ + 1]
    /\ UNCHANGED besidesChain

\* the chain returned to Logger, which logs the request
LeaveLogger ==
    /\ chain.pc = "running"
    /\ chain.index > Len(ChainHandlers)
    /\ chain' = [chain EXCEPT !.pc = "done", !.logged = @ + 1]
    /\ UNCHANGED besidesChain

\* the context goes back to gin's pool
RecycleChain ==
    /\ chain.pc = "done"
    /\ chain' = NoChain
    /\ UNCHANGED besidesChain

NextChain ==
    \/ ServeChain
    \/ RunLogger
    \/ RunCORS
    \/ RunAuth
    \/ RunRouteHandler
    \/ LeaveLogger
    \/ RecycleChain

SpecChain == Init /\ [][NextChain]_vars

\* =========================================================== properties
\* Vocabulary of the properties, stated without the operators of the model.

\* the middleware has returned (it did not panic)
MwDone == pc \in {"running", "done"} /\ index > 1

\* the request is over
Over == pc \in {"done", "panicked"}

\* c.IsAborted()
Aborted == index >= abortIndex

\* the responses the middleware wrote
MwWrites == SelectSeq(written, LAMBDA e : e.by = "middleware")

\* the middleware wrote exactly the error envelope (status, message) and aborted
RejectedWith(status, message) ==
    /\ Len(MwWrites) = 1
    /\ MwWrites[1].status = status
    /\ MwWrites[1].message = message
    /\ ~MwWrites[1].success
    /\ Aborted
    /\ handlerRuns = 0

\* the middleware wrote nothing and handed the request on
PassedOn ==
    /\ MwWrites = <<>>
    /\ ~Aborted
    /\ (pc = "done" => handlerRuns = 1)

\* a header that is absent or holds white space only
Blank(name) ==
    \/ ~req.hdr[name].present
    \/ \A i \in 1..Len(req.hdr[name].value) : IsSpace(req.hdr[name].value[i])

\* s without its leading and trailing white space
Strip(s) ==
    LET ix == {i \in 1..Len(s) : ~IsSpace(s[i])}
    IN  IF ix = {} THEN <<>>
        ELSE SubSeq(s, CHOOSE i \in ix : \A j \in ix : i <= j,
                       CHOOSE i \in ix : \A j \in ix : i >= j)

\* the stripped, non-empty entries of a comma-separated list
Entries(s) ==
    LET n      == Len(s)
        cut    == {0, n + 1} \cup {i \in 1..n : s[i] = ","}
        pieces == { SubSeq(s, a + 1, b - 1) :
                      <<a, b>> \in {x \in cut \X cut :
                                      x[1] < x[2] /\ \A c \in cut : ~(x[1] < c /\ c < x[2])} }
    IN  {Strip(q) : q \in pieces} \ {<<>>}

Range(seq) == {seq[i] : i \in 1..Len(seq)}

UserRoles == Entries(IF req.hdr["X-User-Roles"].present
                     THEN req.hdr["X-User-Roles"].value ELSE <<>>)

\* C1: RequireAuth decides on X-User-ID alone: a request whose X-User-ID is
\* absent or blank is answered 403 "Authentication required" and aborted, every
\* other request is handed on with nothing written, whatever the other headers.
C1_RequireAuthHeaderOnly ==
    (installed.ctor = "RequireAuth" /\ pc \in {"running", "done"} /\ index > 1) =>
        IF Blank("X-User-ID")
        THEN RejectedWith(StatusForbidden, "Authentication required")
        ELSE PassedOn

C1_Witness ==
    /\ installed.ctor = "RequireAuth"
    /\ pc = "done"
    /\ req.hdr["X-User-ID"] = Hdr(<<"\t"," ">>)
    /\ req.hdr["X-User-Roles"].present
    /\ RejectedWith(StatusForbidden, "Authentication required")

\* C3: RequireAnyRole with at least one required role admits a request iff
\* X-User-ID is not blank and some trimmed entry of X-User-Roles equals some
\* required role exactly; otherwise it answers 403, with "required role not
\* found" when the user is identified.
C3_AnyRoleAdmitsIffIntersect ==
    (installed.ctor = "RequireAnyRole" /\ Len(installed.required) >= 1 /\ MwDone) =>
        IF ~Blank("X-User-ID") /\ UserRoles \cap Range(installed.required) # {}
        THEN PassedOn
        ELSE IF Blank("X-User-ID")
             THEN RejectedWith(StatusForbidden, "Authentication required")
             ELSE RejectedWith(StatusForbidden,
                               "Insufficient permissions: required role not found")

C3_Witness ==
    /\ installed.ctor = "RequireAnyRole"
    /\ installed.required = <<rUserCap, rAdmin>>
    /\ req.hdr["X-User-Roles"] = Hdr(<<" ">> \o rAdmin \o <<" ",",">> \o rUser)
    /\ req.hdr["X-User-ID"] = Hdr(uid1)
    /\ pc = "done"
    /\ handlerRuns = 1
    /\ PassedOn

\* C4: RequireAnyRole built with no role behaves as RequireAuth on every
\* request: same status, same message, same pass/abort decision.
C4_EmptyRolesIsRequireAuth ==
    (installed.ctor = "RequireAnyRole" /\ installed.required = <<>> /\ MwDone) =>
        /\ Blank("X-User-ID") => RejectedWith(StatusForbidden, "Authentication required")
        /\ ~Blank("X-User-ID") => PassedOn
        /\ written = IF Blank("X-User-ID")
                     THEN <<Forbidden("Authentication required")>>
                     ELSE IF index > HandlerPos THEN <<HandlerReply>> ELSE <<>>

C4_Witness ==
    /\ installed.ctor = "RequireAnyRole"
    /\ installed.required = <<>>
    /\ req.hdr["X-User-ID"] = Hdr(uid1)
    /\ ~req.hdr["X-User-Roles"].present
    /\ pc = "done"
    /\ written = <<HandlerReply>>

\* C2 (as claimed): under RequireAuth, RequireAnyRole, RequireAnyPermission,
\* RequireAllPermissions and the enabled Auth0, every request ends in exactly
\* one of two ways: the middleware wrote one error envelope and aborted and the
\* route handler never ran, or it wrote nothing and the route handler ran.
C2_TwoOutcomes ==
    (/\ installed.ctor \in {"RequireAuth", "RequireAnyRole", "RequireAnyPermission",
                            "RequireAllPermissions", "Auth0"}
     /\ installed.ctor = "Auth0" => installed.cfg.Enabled
     /\ Over) =>
        LET rejected == /\ Len(MwWrites) = 1
                        /\ ~MwWrites[1].success
                        /\ Aborted
                        /\ handlerRuns = 0
            admitted == /\ MwWrites = <<>>
                        /\ handlerRuns = 1
        IN  (rejected \/ admitted) /\ ~(rejected /\ admitted)

\* a permission string the format ^[a-z0-9_:]+$ rejects
Malformed(p) ==
    \/ p = <<>>
    \/ \E i \in 1..Len(p) : p[i] \notin (Lower \cup Digit \cup {"_", ":"})

\* strings of the pools the format rejects
BadStrings == {pInvalid, <<"H">> \o Tail(pCreate)}

PermsValue == IF req.hdr["X-User-Permissions"].present
              THEN req.hdr["X-User-Permissions"].value ELSE <<>>

UserPerms == Entries(PermsValue)

WithPerms(v) == [req EXCEPT !.hdr["X-User-Permissions"] = Hdr(v)]

\* the entries of l, separated by commas
RECURSIVE JoinComma(_)
JoinComma(l) ==
    IF l = <<>> THEN <<>>
    ELSE IF Len(l) = 1 THEN l[1]
    ELSE l[1] \o <<",">> \o JoinComma(Tail(l))

\* list l with x inserted after its first k entries
Insert(l, k, x) == SubSeq(l, 1, k) \o <<x>> \o SubSeq(l, k + 1, Len(l))

\* list l without its malformed entries
Cleaned(l) == SelectSeq(l, LAMBDA p : ~Malformed(p))

\* the permission middleware installed.ctor built with list l admits request r
AdmitsWith(l, r) ==
    rbacOutcome(Construct([installed EXCEPT !.required = l]), r) = ""

PermissionCheckRan ==
    /\ installed.ctor \in {"RequireAnyPermission", "RequireAllPermissions"}
    /\ MwDone

\* the decision is the same with a malformed string added to, or all malformed
\* strings removed from, the user's header
UserSideInert ==
    /\ \A x \in BadStrings :
          /\ AdmitsWith(installed.required,
                        WithPerms(IF PermsValue = <<>> THEN x
                                  ELSE PermsValue \o <<",">> \o x)) = ~Aborted
          /\ AdmitsWith(installed.required, WithPerms(x \o <<",">> \o PermsValue)) = ~Aborted
    /\ LET keep == {p \in UserPerms : ~Malformed(p)}
           l    == CHOOSE q \in [1..Cardinality(keep) -> keep] : Range(q) = keep
       IN  AdmitsWith(installed.required, WithPerms(JoinComma(l))) = ~Aborted

\* C5 (as claimed): a malformed permission string added or removed on either
\* side never changes the admit/reject decision of RequireAnyPermission and
\* RequireAllPermissions.
C5_MalformedInertAnywhere ==
    PermissionCheckRan =>
        /\ UserSideInert
        /\ \A x \in BadStrings : \A k \in 0..Len(installed.required) :
              AdmitsWith(Insert(installed.required, k, x), req) = ~Aborted
        /\ AdmitsWith(Cleaned(installed.required), req) = ~Aborted

\* C5 (amended): such a string never changes the decision on the user's side,
\* nor on the required side, except that RequireAnyPermission rejects every
\* request when its required list is non-empty and wholly malformed while it
\* admits every identified request when the list is empty.
C5_MalformedInert ==
    PermissionCheckRan =>
        /\ UserSideInert
        /\ \A x \in BadStrings : \A k \in 0..Len(installed.required) :
              (installed.ctor = "RequireAllPermissions" \/ Len(installed.required) >= 1) =>
                  AdmitsWith(Insert(installed.required, k, x), req) = ~Aborted
        /\ (installed.ctor = "RequireAllPermissions" \/ Len(Cleaned(installed.required)) >= 1
            \/ Len(installed.required) = 0) =>
                  AdmitsWith(Cleaned(installed.required), req) = ~Aborted

C5_Witness ==
    /\ installed.ctor = "RequireAnyPermission"
    /\ installed.required = <<pCreate>>
    /\ req.hdr["X-User-Permissions"] = Hdr(pCreate \o <<",">> \o pInvalid \o <<",">> \o pDelete)
    /\ req.hdr["X-User-ID"] = Hdr(uid1)
    /\ pc = "done"
    /\ handlerRuns = 1
    /\ PassedOn

\* the shape application:feature:action: three non-empty segments of lower-case
\* letters, digits and underscores
ThreeSegments(p) ==
    \E i, j \in 1..Len(p) :
        /\ 1 < i /\ i + 1 < j /\ j < Len(p)
        /\ p[i] = ":" /\ p[j] = ":"
        /\ \A k \in (1..Len(p)) \ {i, j} : p[k] \in (Lower \cup Digit \cup {"_"})

\* C6 (as claimed): only permissions of the shape application:feature:action
\* take part in a permission check; every other string, "hellogreetingcreate"
\* included, is discarded before the comparison.  So for an identified user and
\* a non-empty required list the decision is the one taken on the three-segment
\* strings alone.
C6_OnlyThreeSegmentsCount ==
    (PermissionCheckRan /\ Len(installed.required) >= 1 /\ ~Blank("X-User-ID")) =>
        LET required3 == {p \in Range(installed.required) : ThreeSegments(p)}
            user3     == {p \in UserPerms : ThreeSegments(p)}
        IN  IF installed.ctor = "RequireAnyPermission"
            THEN ~Aborted <=> required3 \cap user3 # {}
            ELSE ~Aborted <=> required3 \subseteq user3

\* the format-valid required and user permissions
ValidRequired == {p \in Range(installed.required) : ~Malformed(p)}

ValidUser == {p \in UserPerms : ~Malformed(p)}

\* C7: for an identified user and a non-empty required list,
\* RequireAnyPermission admits iff some format-valid required permission is
\* among the format-valid user permissions and RequireAllPermissions iff every
\* one is; a rejection is 403 with the message of the mode.
C7_AnyAllSemantics ==
    (PermissionCheckRan /\ Len(installed.required) >= 1 /\ ~Blank("X-User-ID")) =>
        IF installed.ctor = "RequireAnyPermission"
        THEN IF ValidRequired \cap ValidUser # {}
             THEN PassedOn
             ELSE RejectedWith(StatusForbidden,
                               "Insufficient permissions: required permission not found")
        ELSE IF ValidRequired \subseteq ValidUser
             THEN PassedOn
             ELSE RejectedWith(StatusForbidden,
                               "Insufficient permissions: missing required permissions")

C7_Witness ==
    /\ installed.ctor = "RequireAllPermissions"
    /\ installed.required = <<pCreate, pDelete>>
    /\ req.hdr["X-User-Permissions"] = Hdr(pCreate)
    /\ req.hdr["X-User-ID"] = Hdr(uid1)
    /\ pc = "done"
    /\ RejectedWith(StatusForbidden, "Insufficient permissions: missing required permissions")

AuthValue == IF req.hdr["Authorization"].present
             THEN req.hdr["Authorization"].value ELSE <<>>

\* "Bearer", one space, and a token without a space
TwoPartBearer(h) ==
    /\ Len(h) >= 7
    /\ SubSeq(h, 1, 7) = <<"B","e","a","r","e","r"," ">>
    /\ \A i \in 8..Len(h) : h[i] # " "

Auth0Ran ==
    /\ installed.ctor = "Auth0"
    /\ installed.cfg.Enabled
    /\ (MwDone \/ pc = "panicked")

\* C8: with the bearer-token middleware enabled, a request whose Authorization
\* header is absent or is not "Bearer <token>" in exactly two space-separated
\* parts is answered 401 and aborted before the token is parsed or a key looked up.
C8_HeaderCheckedFirst ==
    (Auth0Ran /\ ~TwoPartBearer(AuthValue)) =>
        /\ Len(MwWrites) = 1
        /\ MwWrites[1].status = StatusUnauthorized
        /\ ~MwWrites[1].success
        /\ Aborted
        /\ handlerRuns = 0
        /\ trace.parseCalls = 0
        /\ trace.jwksCalls = 0
        /\ ~keys.present

C8_Witness ==
    /\ Auth0Ran
    /\ AuthValue = <<"b","e","a","r","e","r"," ","JWT">>
    /\ req.jwt = GoodToken
    /\ pc = "done"
    /\ RejectedWith(StatusUnauthorized, "Bearer token required")
    /\ trace.parseCalls = 0

\* C9 (as claimed): whatever the reason of the failure, missing or malformed
\* header included, the required bearer-token middleware answers 401 with the
\* one message "Invalid or expired token".
C9_OneMessageForAll ==
    (Auth0Ran /\ Aborted) => RejectedWith(StatusUnauthorized, "Invalid or expired token")

\* the reasons token verification fails with
VerificationFailures ==
    { "failed to parse token: malformed", "unexpected signing method",
      "kid not found in token header", "failed to fetch JWKS", "key not found",
      "failed to get raw key", "failed to parse token: signature is invalid",
      "failed to parse token: token is expired", "audience not found in token",
      "audience mismatch", "issuer not found in token", "issuer mismatch",
      "sub (subject) not found in token" }

\* C9 (amended): every rejection is a 401; a missing header is answered
\* "Authorization header required", a malformed one "Bearer token required", and
\* every failure of token verification (parse, key, signature, expiry,
\* audience, issuer, subject) the one message "Invalid or expired token", its
\* reason appearing in the log only.
C9_GenericVerificationMessage ==
    (Auth0Ran /\ Aborted) =>
        /\ RejectedWith(StatusUnauthorized,
               IF AuthValue = <<>> THEN "Authorization header required"
               ELSE IF ~TwoPartBearer(AuthValue) THEN "Bearer token required"
               ELSE "Invalid or expired token")
        /\ TwoPartBearer(AuthValue) =>
              /\ trace.result \in VerificationFailures
              /\ \E i \in 1..Len(log) : log[i].level = "warn" /\ log[i].reason = trace.result
              /\ \A i \in 1..Len(written) : written[i].message # trace.result

C9_Witness ==
    /\ Auth0Ran
    /\ pc = "done"
    /\ trace.result = "issuer mismatch"
    /\ RejectedWith(StatusUnauthorized, "Invalid or expired token")
    /\ \E i \in 1..Len(log) : log[i].reason = "issuer mismatch"

\* C10 (as claimed): optional verification never blocks: for every request the
\* middleware writes nothing and the route handler runs exactly once, and an
\* identity is attached iff the presented token validated.
C10_OptionalNeverBlocks ==
    (installed.ctor = "OptionalAuth0" /\ Over) =>
        /\ MwWrites = <<>>
        /\ handlerRuns = 1
        /\ keys.present <=> (installed.cfg.Enabled /\ TwoPartBearer(AuthValue)
                             /\ trace.result = "")

\* the value of a string claim of the presented token, empty when it is
\* absent or no string
ClaimText(c) == IF req.jwt[c].t = "string" THEN req.jwt[c].v ELSE <<>>

\* optional verification accepted the presented token
OptionalVerified ==
    /\ installed.ctor = "OptionalAuth0"
    /\ installed.cfg.Enabled
    /\ MwDone
    /\ AuthValue = <<"B","e","a","r","e","r"," ","JWT">>
    /\ trace.result = ""

\* the token carries none of the claims a name is taken from
TokenLacksName ==
    \A c \in {"name", "given_name", "family_name", "nickname"} : ClaimText(c) = <<>>

TokenLacksEmail == ClaimText("email") = <<>>

\* C11 (as claimed): in optional verification, whenever the verified token
\* lacks a name or lacks an email, the userinfo endpoint is called once with
\* the same bearer token; every non-empty name and email it returns is merged
\* into the identity, and when the call fails the identity is the token-only
\* data; the request proceeds either way.
C11_UserInfoWhenNameOrEmailMissing ==
    (OptionalVerified /\ (TokenLacksName \/ TokenLacksEmail)) =>
        /\ trace.userinfoCalls = 1
        /\ trace.userinfoAuth = AuthValue
        /\ PassedOn
        /\ keys.present
        /\ trace.userinfoAnswer.ok =>
              /\ trace.userinfoAnswer.Email # <<>> => keys.Email = trace.userinfoAnswer.Email
              /\ trace.userinfoAnswer.Name # <<>> => keys.Name = trace.userinfoAnswer.Name
        /\ ~trace.userinfoAnswer.ok => keys = trace.tokenUser

\* a bearer-token middleware is enabled and has handled a request carrying the token
TokenPresented ==
    /\ installed.ctor \in {"Auth0", "OptionalAuth0"}
    /\ installed.cfg.Enabled
    /\ (MwDone \/ pc = "panicked")
    /\ AuthValue = <<"B","e","a","r","e","r"," ","JWT">>

\* verification accepted the token
Verified == TokenPresented /\ trace.result = ""

\* the audience a token names: its string aud claim, or the first element of
\* its array aud claim; no audience otherwise
NamedAudience ==
    IF req.jwt.aud.t = "string" THEN <<req.jwt.aud.v>>
    ELSE IF req.jwt.aud.t = "array" /\ Len(req.jwt.aud.arr) >= 1
            /\ req.jwt.aud.arr[1].t = "string"
         THEN <<req.jwt.aud.arr[1].v>>
    ELSE <<>>

SignedAndFresh ==
    /\ req.jwt.form = "ok" /\ req.jwt.alg = "RS256" /\ req.jwt.sig /\ req.jwt.fresh

IssuerOfTenant ==
    /\ req.jwt.iss.t = "string"
    /\ req.jwt.iss.v \in { <<"h","t","t","p","s",":","/","/">> \o installed.cfg.Domain \o <<"/">>,
                           <<"h","t","t","p","s",":","/","/">> \o installed.cfg.Domain }

SubjectIsString == req.jwt.sub.t = "string"

KeyIdKnown == req.jwt.kid.t = "string" /\ req.jwt.kid.v = <<"k","1">>

\* C13: the issuer comparison is slash-tolerant and nothing more.  With
\* configured domain D a token is accepted only if its iss claim is exactly
\* "https://D/" or "https://D"; a correctly signed token of the right audience
\* with one of these two issuers is never refused for its issuer (it is
\* accepted whenever its key is obtained and it has a subject), and with any
\* other iss value, a missing or non-string one included, it is rejected.
C13_IssuerSlashTolerant ==
    /\ (TokenPresented /\ (trace.result = "" \/ keys.present)) => IssuerOfTenant
    /\ (TokenPresented /\ SignedAndFresh /\ KeyIdKnown
           /\ NamedAudience = <<installed.cfg.Audience>>) =>
           IF IssuerOfTenant
           THEN /\ trace.result \notin {"issuer not found in token", "issuer mismatch"}
                /\ SubjectIsString =>
                      trace.result \in {"", "failed to fetch JWKS", "failed to get raw key"}
                /\ trace.result = "" => (keys.present /\ PassedOn)
           ELSE /\ ~keys.present
                /\ trace.result \in {"issuer not found in token", "issuer mismatch",
                                     "failed to fetch JWKS", "failed to get raw key"}
                /\ installed.ctor = "Auth0" =>
                      RejectedWith(StatusUnauthorized, "Invalid or expired token")

C13_Witness ==
    /\ TokenPresented
    /\ installed.ctor = "Auth0"
    /\ pc = "done"
    /\ req.jwt.iss = [t |-> "string", v |-> <<"h","t","t","p","s",":","/","/","t",".","c","o">>,
                      arr |-> <<>>]
    /\ trace.result = ""
    /\ keys.present
    /\ handlerRuns = 1
    /\ MwWrites = <<>>

\* given_name and family_name joined by one space; the one present alone
\* when the other is missing
GivenAndFamily ==
    IF ClaimText("given_name") # <<>> /\ ClaimText("family_name") # <<>>
    THEN ClaimText("given_name") \o <<" ">> \o ClaimText("family_name")
    ELSE ClaimText("given_name") \o ClaimText("family_name")

\* the candidates for the display name, in the order of their priority
NameCandidates ==
    << ClaimText("name"), GivenAndFamily, ClaimText("nickname"), ClaimText("email"),
       ClaimText("sub") >>

FirstNonEmptyCandidate ==
    LET filled == {i \in 1..Len(NameCandidates) : NameCandidates[i] # <<>>}
    IN  IF filled = {} THEN <<>>
        ELSE NameCandidates[CHOOSE i \in filled : \A j \in filled : i <= j]

Logged(msg) == \E i \in 1..Len(log) : log[i].msg = msg

RegisterFailed == Logged("Failed to register JWKS URL in cache")

RefreshFailed == Logged("Failed to refresh JWKS cache")

\* the token passes every check once its key is at hand
TokenGood ==
    /\ SignedAndFresh /\ KeyIdKnown /\ SubjectIsString /\ IssuerOfTenant
    /\ NamedAudience = <<installed.cfg.Audience>>

\* C15: on a cache miss the key set is fetched on demand and the URL is then
\* registered and refreshed.  A failed register or refresh is logged as a
\* warning and nothing else: the request goes on to the key lookup with the
\* keys it fetched, so a good token is still accepted unless the key itself
\* cannot be extracted.  A failed fetch fails the verification.
C15_CacheMissFetchOnDemand ==
    TokenPresented =>
        /\ (RegisterFailed \/ RefreshFailed) =>
              /\ trace.keysFrom = "fetched"
              /\ trace.result # "failed to fetch JWKS"
              /\ \A i \in 1..Len(log) :
                    log[i].msg \in {"Failed to register JWKS URL in cache",
                                    "Failed to refresh JWKS cache"} => log[i].level = "warn"
              /\ TokenGood => trace.result \in {"", "failed to get raw key"}
              /\ (~KeyIdKnown /\ req.jwt.kid.t = "string") => trace.result = "key not found"
              /\ trace.result = "" => (keys.present /\ PassedOn)
        /\ (trace.keysFrom = "fetched" /\ ~RegisterFailed) => jwksRegistered
        /\ trace.result = "failed to fetch JWKS" =>
              /\ trace.keysFrom = "none"
              /\ ~keys.present
              /\ installed.ctor = "Auth0" =>
                    RejectedWith(StatusUnauthorized, "Invalid or expired token")

C15_Witness ==
    /\ TokenPresented
    /\ installed.ctor = "Auth0"
    /\ pc = "done"
    /\ RegisterFailed /\ RefreshFailed
    /\ ~jwksRegistered
    /\ trace.keysFrom = "fetched"
    /\ trace.result = ""
    /\ keys.present
    /\ handlerRuns = 1

\* request p holds keys, from the cache or from its own fetch
HoldsKeys(p) == verifying[p].keySet \in {"cache", "fetched"}

\* request q failed to register or to refresh the key-set URL
FailedCacheUpdate(q) == verifying[q].warns # {}

Constructors == {"New", "NewWithDetails", "Wrap", "WrapWithDetails"} \cup CommonConstructors

\* the status of each named error kind
StatusOfKind(code) ==
    IF code \in {"INVALID_INPUT", "MISSING_FIELD", "INVALID_FORMAT", "VALUE_TOO_LONG",
                 "VALUE_TOO_SHORT"} THEN 400
    ELSE IF code \in {"BUSINESS_RULE_VIOLATION", "DUPLICATE_ENTRY"} THEN 409
    ELSE IF code = "NOT_FOUND" THEN 404
    ELSE IF code = "UNAUTHORIZED" THEN 401
    ELSE IF code = "FORBIDDEN" THEN 403
    ELSE IF code = "RATE_LIMIT_EXCEEDED" THEN 429
    ELSE IF code \in {"INTERNAL_ERROR", "DATABASE_ERROR", "NETWORK_ERROR", "TIMEOUT"} THEN 500
    ELSE IF code \in {"SERVICE_UNAVAILABLE", "EXTERNAL_SERVICE_ERROR"} THEN 503
    ELSE 0

\* the error kind each common constructor is named after
KindOfConstructor(name) ==
    CASE name = "NewInvalidInput"         -> "INVALID_INPUT"
      [] name = "NewMissingField"         -> "MISSING_FIELD"
      [] name = "NewInvalidFormat"        -> "INVALID_FORMAT"
      [] name = "NewValueTooLong"         -> "VALUE_TOO_LONG"
      [] name = "NewValueTooShort"        -> "VALUE_TOO_SHORT"
      [] name = "NewBusinessRule"         -> "BUSINESS_RULE_VIOLATION"
      [] name = "NewNotFound"             -> "NOT_FOUND"
      [] name = "NewDuplicateEntry"       -> "DUPLICATE_ENTRY"
      [] name = "NewDatabaseError"        -> "DATABASE_ERROR"
      [] name = "NewServiceUnavailable"   -> "SERVICE_UNAVAILABLE"
      [] name = "NewInternalError"        -> "INTERNAL_ERROR"
      [] name = "NewNetworkError"         -> "NETWORK_ERROR"
      [] name = "NewTimeoutError"         -> "TIMEOUT"
      [] name = "NewUnauthorized"         -> "UNAUTHORIZED"
      [] name = "NewForbidden"            -> "FORBIDDEN"
      [] name = "NewRateLimitExceeded"    -> "RATE_LIMIT_EXCEEDED"
      [] name = "NewExternalServiceError" -> "EXTERNAL_SERVICE_ERROR"

\* C17: every named error kind has exactly one HTTP status (400 for the five
\* input kinds, 409 for business rule and duplicate entry, 404, 401, 403, 429,
\* 500 for internal, database, network and timeout, 503 for service unavailable
\* and external service), and an error built by any constructor, the four
\* general ones with the code they are given and each common one with the code
\* it is named after, carries the status of its code.
C17_StatusOfCode ==
    /\ \A code \in ErrorCodes : getHTTPStatus(code) = StatusOfKind(code)
    /\ call.fn \in Constructors =>
          /\ call.fn \in CommonConstructors => call.out.Code = KindOfConstructor(call.fn)
          /\ call.fn \notin CommonConstructors => call.out.Code = call.in.code
          /\ call.out.Code \in ErrorCodes => call.out.HTTPStatus = StatusOfKind(call.out.Code)

\* a wrapped cause was given the rate-limit code and carries 429
C17_Witness ==
    /\ call.fn = "Wrap"
    /\ call.in.code = "RATE_LIMIT_EXCEEDED"
    /\ call.out.Err = Cause
    /\ call.out.HTTPStatus = 429

\* the message of the internal-error kind, with the context a caller appended
InternalMessage(context) ==
    IF context = <<>> THEN <<"internal server error">>
    ELSE <<"internal server error", ": ">> \o context[1]

\* C18: a code outside the taxonomy, the empty string included, maps to the
\* internal-error status 500 in every error constructed with it, and to the
\* internal-error message in every message lookup.
C18_UnknownCodeIsInternal ==
    /\ (call.fn \in {"New", "NewWithDetails", "Wrap", "WrapWithDetails"}
          /\ call.in.code \notin ErrorCodes) =>
            /\ call.out.Code = call.in.code
            /\ call.out.HTTPStatus = 500
    /\ (call.fn = "GetMessage" /\ call.in.code \notin ErrorCodes) =>
            call.out = InternalMessage(call.in.context)

\* the message of the empty code was looked up
C18_Witness ==
    /\ call.fn = "GetMessage"
    /\ call.in.code = ""
    /\ call.in.context = <<>>
    /\ call.out = <<"internal server error">>

\* the calls that write an envelope
Responders ==
    {"Success", "SuccessWithMessage", "Created", "Error", "ErrorWithMessage", "BadRequest",
     "Unauthorized", "Forbidden", "NotFound", "Conflict", "InternalServerError",
     "ServiceUnavailable", "Paginated", "ValidationError", "Health"}

\* a responder returned after writing an envelope
EnvelopeWritten == call.fn \in Responders /\ call.out.kind = "json"

\* C19: in every envelope a responder writes, for every input, exactly one of
\* data and error is populated, according to the success flag: a success
\* envelope has data and no error, a failure envelope has an error and no data.
C19_ExactlyOneOfDataAndError ==
    EnvelopeWritten =>
        IF call.out.success
        THEN call.out.hasData /\ ~call.out.hasError
        ELSE call.out.hasError /\ ~call.out.hasData

\* the responders that pass the caller's data on as the envelope's data
DataResponders == {"Success", "SuccessWithMessage", "Created"}

\* C19, as the code has it: in every envelope a responder writes, data and
\* error are never both
\* populated and the success flag decides the error: a success envelope has no
\* error, and a failure envelope has an error and no data unless Health wrote
\* it. Data is written whenever it is not nil: Success, SuccessWithMessage and
\* Created write the data they are given and omit a nil one, Paginated and
\* Health always write data, and Health's failure envelope (any status but
\* "healthy" and "ok") carries data and no error.
C19_DataAndErrorBySuccess ==
    EnvelopeWritten =>
        /\ ~(call.out.hasData /\ call.out.hasError)
        /\ call.out.success => ~call.out.hasError
        /\ (~call.out.success /\ call.fn # "Health") =>
              call.out.hasError /\ ~call.out.hasData
        /\ call.fn \in DataResponders =>
              /\ call.out.success
              /\ call.out.hasData = (call.in.data # "nil")
        /\ call.fn = "Paginated" => call.out.success /\ call.out.hasData
        /\ call.fn = "Health" =>
              /\ call.out.hasData /\ ~call.out.hasError
              /\ call.out.success = (call.in.status \in {"healthy", "ok"})

\* Health answered for a degraded service: a failure envelope with data
C19_Witness ==
    /\ call.fn = "Health"
    /\ call.in.status = "degraded"
    /\ call.out.status = 503
    /\ ~call.out.success
    /\ call.out.hasData
    /\ ~call.out.hasError

\* the responders that take an error value
ErrorResponders == {"Error", "ErrorWithMessage"}

\* a plain error, or no error at all, was handed to an error responder
PlainErrorPassed == call.fn \in ErrorResponders /\ call.in.err.kind # "app"

\* C20: a plain error passed to the error-response constructor is coerced to
\* the internal-error kind, code INTERNAL_ERROR and status 500, before it is
\* serialized, and no error envelope is ever written whose code is outside the
\* taxonomy.
C20_OnlyRecognizedCodes ==
    /\ PlainErrorPassed =>
          /\ call.out.hasError
          /\ call.out.code = "INTERNAL_ERROR"
          /\ call.out.status = 500
    /\ (EnvelopeWritten /\ call.out.hasError) => call.out.code \in ErrorCodes

\* C20, as the code has it: a plain error passed to Error or ErrorWithMessage
\* is coerced to code INTERNAL_ERROR and status 500 before it is serialized. A
\* structured error is serialized with the code and the status it carries,
\* whatever the code: an envelope's code is outside the taxonomy exactly when
\* the structured error handed to Error, ErrorWithMessage or ValidationError
\* had such a code. Every other responder writes a code of the taxonomy.
C20_PlainErrorCoerced ==
    /\ PlainErrorPassed =>
          /\ call.out.hasError
          /\ call.out.code = "INTERNAL_ERROR"
          /\ call.out.status = 500
          /\ ~call.out.success
    /\ (call.fn \in ErrorResponders /\ call.in.err.kind = "app") =>
          /\ call.out.hasError
          /\ call.out.code = call.in.err.e.Code
          /\ call.out.status = call.in.err.e.HTTPStatus
    /\ (call.fn = "ValidationError" /\ call.in.err.kind = "app") =>
          call.out.code = call.in.err.e.Code
    /\ (EnvelopeWritten /\ call.out.hasError /\ call.out.code \notin ErrorCodes) =>
          /\ call.fn \in ErrorResponders \cup {"ValidationError"}
          /\ call.in.err.kind = "app"
          /\ call.in.err.e.Code = call.out.code

\* Error was handed a plain error and wrote the internal-error envelope
C20_Witness ==
    /\ call.fn = "Error"
    /\ call.in.err = PlainError
    /\ call.out.code = "INTERNAL_ERROR"
    /\ call.out.status = 500
    /\ call.out.message = <<"internal server error">>

\* ceil(total / pageSize) for positive total and pageSize
Ceiling(total, pageSize) ==
    CHOOSE n \in 0..total : n * pageSize >= total /\ (n - 1) * pageSize < total

\* Paginated wrote the envelope of a positive total and a positive page size
PositivePage ==
    /\ call.fn = "Paginated"
    /\ call.out.kind = "json"
    /\ call.in.total > 0
    /\ call.in.pageSize > 0

\* C21: for all positive integers total and pageSize the pagination envelope
\* reports totalPages = ceil(total / pageSize), computed in integer arithmetic
\* as (total + pageSize - 1) / pageSize.
C21_TotalPagesIsCeiling ==
    PositivePage => call.out.totalPages = Ceiling(call.in.total, call.in.pageSize)

\* ValidateStruct was handed something that is not a struct
NonStructValidated ==
    /\ call.fn = "ValidateStruct"
    /\ call.in.s.kind \notin {"struct", "pointer"}

\* C22: struct validation never raises: handed a value that is not a struct,
\* such as nil, ValidateStruct returns a result with IsValid = false and
\* exactly one generic violation, field "field" and message "validation
\* failed", instead of panicking or returning no result.
C22_NonStructIsOneViolation ==
    NonStructValidated =>
        /\ call.out.kind = "result"
        /\ ~call.out.IsValid
        /\ Len(call.out.Errors) = 1
        /\ call.out.Errors[1].Field = "field"
        /\ call.out.Errors[1].Message = <<"validation failed">>

\* ValidateStruct(nil) returned the generic violation
C22_Witness ==
    /\ call.fn = "ValidateStruct"
    /\ call.in.s.kind = "nil"
    /\ call.out.kind = "result"
    /\ ~call.out.IsValid
    /\ Len(call.out.Errors) = 1
    /\ call.out.Errors[1].Code = "VALIDATION_ERROR"

\* the order of the levels: debug < info < warn < error < fatal
LevelOrder == <<"debug", "info", "warn", "error", "fatal">>

PlaceOf(level) == CHOOSE i \in 1..Len(LevelOrder) : LevelOrder[i] = level

\* the minimum level a logger was asked for: the level name handed to
\* NewZapLoggerFromConfig or found in LOG_LEVEL, or the LogLevel handed to New
AskedLevel ==
    CASE call.in.level \in {"debug", "DEBUG"} -> "debug"
      [] call.in.level \in {"info", "INFO"}   -> "info"
      [] call.in.level \in {"warn", "WARN"}   -> "warn"
      [] call.in.level \in {"error", "ERROR"} -> "error"
      [] OTHER                                -> "other"

\* a record was handed to a logger built with one of the four minimum levels
LoggedAtAskedLevel ==
    /\ \/ call.fn = "LogConfigured" /\ call.in.level \in {"debug", "info", "warn", "error"}
       \/ call.fn = "LogNew"
       \/ call.fn = "LogFromEnv" /\ call.in.level \in {"debug", "info", "warn", "error"}
    /\ AskedLevel # "other"

\* C23: a logger configured with minimum level L in {debug, info, warn, error}
\* emits a record of level M if and only if M >= L in the order debug < info <
\* warn < error < fatal; in particular a logger created from the environment
\* with LOG_LEVEL=debug emits debug records, and one created with
\* LOG_LEVEL=error drops info and warn records.
C23_EmitsIffAtLeastMinimum ==
    LoggedAtAskedLevel =>
        ((call.out.kind = "record") <=> (PlaceOf(call.in.record) >= PlaceOf(AskedLevel)))

\* C24: a request-scoped logger built by NewContextLogger attaches the service
\* name to every record it emits, and whenever the request context carries a
\* correlation id stored by the package's own WithRequestID it attaches that id
\* to every record as well.
C24_ServiceAndRequestIDAttached ==
    (call.fn = "ContextLog" /\ call.out.kind = "record") =>
        /\ \E i \in 1..Len(call.out.fields) :
              call.out.fields[i] = [key |-> "service", value |-> call.in.service]
        /\ \A id \in {"req-1"} :
              Value(call.in.ctx, RequestIDKey) = [t |-> "string", v |-> id] =>
                 \E i \in 1..Len(call.out.fields) :
                    call.out.fields[i] = [key |-> "requestId", value |-> id]

\* C25: the liveness probe HealthCheck called with a nil connection handle
\* returns an error, a reported failure, and never panics.
C25_NilHandleIsReported ==
    (call.fn = "HealthCheck" /\ call.in.db = "nil") =>
        /\ call.out.kind # "panic"
        /\ call.out.kind = "error"

\* the middleware was built with a non-empty list of malformed permissions only
\* and has run on a request that names its user
FullyMalformedRequired ==
    /\ PermissionCheckRan
    /\ Len(installed.required) >= 1
    /\ \A p \in Range(installed.required) : Malformed(p)
    /\ ~Blank("X-User-ID")

\* C26: given a non-empty required list in which every entry is malformed,
\* the filtered required set is empty, and RequireAllPermissions admits every
\* request with a non-empty X-User-ID whatever its permissions, whereas
\* RequireAnyPermission rejects every such request with 403: the two modes
\* fail in opposite directions.
C26_FullyMalformedOpposite ==
    FullyMalformedRequired =>
        /\ validRequiredPermissions(installed.required) = <<>>
        /\ installed.ctor = "RequireAllPermissions" => PassedOn
        /\ installed.ctor = "RequireAnyPermission" =>
              RejectedWith(StatusForbidden,
                           "Insufficient permissions: required permission not found")

\* RequireAllPermissions built with one malformed permission let a user
\* without any permission through to the handler
C26_Witness ==
    /\ installed.ctor = "RequireAllPermissions"
    /\ installed.required = <<pInvalid>>
    /\ req.hdr["X-User-ID"] = Hdr(uid1)
    /\ ~req.hdr["X-User-Permissions"].present
    /\ pc = "done"
    /\ handlerRuns = 1
    /\ PassedOn

\* the status the taxonomy assigns to a code: 500 for a code it does not name
TaxonomyStatus(code) == IF code \in ErrorCodes THEN StatusOfKind(code) ELSE 500

\* a responder wrote the envelope of an error built by the errors package
StructuredErrorSent ==
    /\ call.fn \in {"Error", "ErrorWithMessage", "ValidationError"}
    /\ call.in.err.kind = "app"
    /\ call.out.kind = "json"
    /\ call.out.hasError

\* C27: for every error envelope the response package writes from an error
\* built with the constructors of the errors package, the HTTP status of the
\* response equals the status the taxonomy assigns to the code carried in the
\* envelope; this includes ValidationError, given any error of the taxonomy.
C27_StatusMatchesCode ==
    StructuredErrorSent => call.out.status = TaxonomyStatus(call.out.code)

\* C27, as the code has it: Error and ErrorWithMessage answer with the status
\* the taxonomy assigns to the envelope's code. ValidationError always answers
\* 400 and keeps the code of the error it is given, so its status equals the
\* code's only for the five input kinds.
C27_StatusMatchesCodeExceptValidation ==
    StructuredErrorSent =>
        /\ call.out.code = call.in.err.e.Code
        /\ call.fn \in ErrorResponders => call.out.status = TaxonomyStatus(call.out.code)
        /\ call.fn = "ValidationError" =>
              /\ call.out.status = 400
              /\ (call.out.status = TaxonomyStatus(call.out.code)) <=>
                    call.out.code \in {"INVALID_INPUT", "MISSING_FIELD", "INVALID_FORMAT",
                                       "VALUE_TOO_LONG", "VALUE_TOO_SHORT"}

\* ValidationError was given a not-found error and answered 400 with its code
C27_Witness ==
    /\ call.fn = "ValidationError"
    /\ call.in.err.kind = "app"
    /\ call.in.err.e.Code = "NOT_FOUND"
    /\ call.out.status = 400
    /\ call.out.code = "NOT_FOUND"

\* verification got as far as the claims of the token
ClaimsReached ==
    /\ TokenPresented
    /\ trace.result \notin { "failed to parse token: malformed", "unexpected signing method",
                             "kid not found in token header", "failed to fetch JWKS",
                             "key not found", "failed to get raw key",
                             "failed to parse token: signature is invalid",
                             "failed to parse token: token is expired" }

\* the configured audience as a string element of an aud array
ConfiguredAudience == [t |-> "string", v |-> installed.cfg.Audience, arr |-> <<>>]

\* the aud array holds the configured audience, but not in the first place
AudienceLaterOnly ==
    /\ req.jwt.aud.t = "array"
    /\ Len(req.jwt.aud.arr) >= 2
    /\ req.jwt.aud.arr[1] # ConfiguredAudience
    /\ \E i \in 2..Len(req.jwt.aud.arr) : req.jwt.aud.arr[i] = ConfiguredAudience

\* the aud claim is missing or an empty array
AudienceAbsent ==
    \/ req.jwt.aud.t = "absent"
    \/ req.jwt.aud.t = "array" /\ req.jwt.aud.arr = <<>>

\* the token was refused: no identity is attached, and the required
\* middleware answered 401 and did not run the handler
TokenRefused ==
    /\ pc # "panicked"
    /\ ~keys.present
    /\ trace.result # ""
    /\ installed.ctor = "Auth0" =>
          (MwDone => RejectedWith(StatusUnauthorized, "Invalid or expired token"))

\* C28: when the aud claim of the token is an array only its first element is
\* compared with the configured audience: a token whose array holds the
\* configured audience at any later position is rejected, and an empty array
\* or a missing aud claim is rejected as audience not found.
C28_FirstAudienceOnly ==
    TokenPresented =>
        /\ AudienceLaterOnly =>
              /\ TokenRefused
              /\ ClaimsReached => trace.result = "audience mismatch"
        /\ AudienceAbsent =>
              /\ TokenRefused
              /\ ClaimsReached => trace.result = "audience not found in token"
        /\ (ClaimsReached /\ req.jwt.aud.t = "array" /\ Len(req.jwt.aud.arr) >= 1
              /\ req.jwt.aud.arr[1] = ConfiguredAudience) =>
              trace.result \notin {"audience mismatch", "audience not found in token"}

\* CORS has run on the request in the chain
CORSRan == "CORS" \in Range(chain.ran)

\* C29: in the chain logging, CORS, authentication or authorization, handler,
\* every OPTIONS request is answered by CORS with status 204 and aborted, so
\* neither the authentication middleware nor the handler ever runs for it;
\* every request with another method passes CORS, with the header
\* Access-Control-Allow-Origin set to the Origin of the request, or to "*" when
\* there is none.
C29_PreflightStopsAtCORS ==
    /\ chain.method = "OPTIONS" =>
          /\ "Auth" \notin Range(chain.ran)
          /\ "Handler" \notin Range(chain.ran)
          /\ CORSRan => (chain.status = 204 /\ chain.index >= abortIndex)
          /\ chain.pc = "done" => (chain.ran = <<"Logger", "CORS">> /\ chain.status = 204)
    /\ (chain.pc # "idle" /\ chain.method # "OPTIONS" /\ CORSRan) =>
          /\ chain.headers[AllowOrigin] = IF chain.origin = "" THEN "*" ELSE chain.origin
          /\ chain.status # 204
          /\ chain.pc = "done" => SubSeq(chain.ran, 1, 3) = <<"Logger", "CORS", "Auth">>
          /\ chain.pc = "done" =>
                IF chain.authorized
                THEN chain.ran = ChainHandlers /\ chain.status = StatusOK
                ELSE chain.ran = <<"Logger", "CORS", "Auth">> /\ chain.status = StatusUnauthorized

\* a preflight request with an Origin ended at CORS with 204
C29_Witness ==
    /\ chain.pc = "done"
    /\ chain.method = "OPTIONS"
    /\ chain.origin = "https://example.com"
    /\ chain.status = 204
    /\ chain.ran = <<"Logger", "CORS">>
    /\ chain.headers[AllowOrigin] = "https://example.com"
    /\ chain.logged = 1

\* Paginated was called
PaginatedCalled == call.fn = "Paginated"

\* C30: Paginated called with pageSize = 0 fails with an integer division by
\* zero before anything is written, so no envelope is emitted for that request;
\* for every pageSize > 0 exactly one envelope is written, with HTTP status 200,
\* hasNext = (page < totalPages) and hasPrev = (page > 1).
C30_ZeroPageSizePanics ==
    PaginatedCalled =>
        /\ call.in.pageSize = 0 => call.out = Panic
        /\ call.in.pageSize > 0 =>
              /\ call.out.kind = "json"
              /\ call.out.status = StatusOK
              /\ call.out.hasNext = (call.in.page < call.out.totalPages)
              /\ call.out.hasPrev = (call.in.page > 1)

\* Paginated was called with a page size of zero and wrote nothing
C30_Witness ==
    /\ PaginatedCalled
    /\ call.in.pageSize = 0
    /\ call.in.total = 25
    /\ call.out = Panic

====
